---- MODULE Spec2Model ----
(***************************************************************************)
(* A model of zerv (bunx-zerv), a Bun HTTP server driven by an nginx-style *)
(* configuration: src/server.ts, lines 1-511, and the helpers of           *)
(* src/utils.ts it uses.                                                   *)
(*                                                                         *)
(* Strings.  A path-like string (request path, location prefix, try_files  *)
(* argument, file name) is the sequence of its characters.  A header-like  *)
(* string (add_header entry, header value) is the sequence of its tokens,  *)
(* where a space and a quote are tokens of their own and every other token *)
(* is a maximal run of characters holding neither: the operations the code *)
(* applies to such a string (indexOf(' '), slice, the quote-stripping      *)
(* regular expression) act on token boundaries only.                       *)
(***************************************************************************)
EXTENDS Integers, Sequences, FiniteSets, TLC

VARIABLES
    scenario,        \* which configuration, file tree and clients this run has
    global_config,   \* [cors, add_header, loaded]: global_config.cors,
                     \* global_config.http.add_header, and the configurations
                     \* that the watcher loaded after startup
    server_cfg,      \* the server_cfg object startServer closes over
    files,           \* the regular files on disk (the file collaborator's view)
    pending,         \* requests whose runActions is suspended at an await
    last,            \* the exchange completed last (what the client observed)
    sockets          \* the WebSocket bridge: the client's socket (wss), the
                     \* socket to the upstream (wss.upstream_wsc), the
                     \* onWscOpen timers and the messages passed on

vars == <<scenario, global_config, server_cfg, files, pending, last, sockets>>

-----------------------------------------------------------------------------
(* Bounds of the model *)

MaxLocs == 2        \* location blocks of a generated server block
MaxPending == 2     \* requests in flight at once
MaxAddHeader == 5   \* length to which requests may grow a rule's add_header list
MaxReloads == 1     \* times the watcher reloads the configuration
MaxMessages == 2    \* messages each peer of a WebSocket bridge sends

-----------------------------------------------------------------------------
(* Program constants *)

HTTP_SWITCHING_PROTOCOLS == 101
HTTP_SERVER_ERROR == 500
HTTP_NOT_FOUND == 404
HTTP_OK == 200
HTTP_NO_CONTENT == 204

-----------------------------------------------------------------------------
(* String primitives of the JavaScript runtime *)

StartsWith(s, p) == Len(p) <= Len(s) /\ SubSeq(s, 1, Len(p)) = p

EndsWith(s, p) == Len(p) <= Len(s) /\ SubSeq(s, Len(s) - Len(p) + 1, Len(s)) = p

\* s.slice(n) for 0 <= n
Slice(s, n) == SubSeq(s, n + 1, Len(s))

\* s.indexOf(c) + 1, so 0 when c does not occur
IndexOf(s, c) ==
    IF \E i \in 1..Len(s) : s[i] = c
    THEN CHOOSE i \in 1..Len(s) : s[i] = c /\ \A j \in 1..(i - 1) : s[j] # c
    ELSE 0

\* s.split(c)
RECURSIVE Split(_, _)
Split(s, c) ==
    LET i == IndexOf(s, c)
    IN  IF i = 0 THEN <<s>>
        ELSE <<SubSeq(s, 1, i - 1)>> \o Split(Slice(s, i), c)

\* The replacement string of s.replace(pat, by): "$$" inserts "$", "$&" the
\* match and "$'" what follows the match.  (The pattern for what precedes
\* the match needs a backtick, which a URL's pathname never holds: the URL
\* parser percent-encodes it.)
RECURSIVE ExpandReplacement(_, _, _)
ExpandReplacement(by, matched, after) ==
    IF by = <<>> THEN <<>>
    ELSE IF Len(by) >= 2 /\ by[1] = "$" /\ by[2] \in {"$", "&", "'"}
    THEN (CASE by[2] = "$" -> <<"$">>
            [] by[2] = "&" -> matched
            [] OTHER -> after)
         \o ExpandReplacement(SubSeq(by, 3, Len(by)), matched, after)
    ELSE <<by[1]>> \o ExpandReplacement(Tail(by), matched, after)

\* s.replace(pat, by) with a string pattern: the first occurrence only
ReplaceFirst(s, pat, by) ==
    LET hits == {i \in 1..(Len(s) - Len(pat) + 1) : SubSeq(s, i, i + Len(pat) - 1) = pat}
    IN  IF hits = {} THEN s
        ELSE LET i == CHOOSE k \in hits : \A j \in hits : k <= j
                 after == SubSeq(s, i + Len(pat), Len(s))
             IN  SubSeq(s, 1, i - 1) \o ExpandReplacement(by, pat, after) \o after

\* s.replace(/\/\/+/g, '/')
RECURSIVE CollapseSlashes(_)
CollapseSlashes(s) ==
    IF Len(s) <= 1 THEN s
    ELSE IF s[1] = "/" /\ s[2] = "/" THEN CollapseSlashes(Tail(s))
    ELSE <<s[1]>> \o CollapseSlashes(Tail(s))

HexDigits ==
    {"0", "1", "2", "3", "4", "5", "6", "7", "8", "9",
     "a", "b", "c", "d", "e", "f", "A", "B", "C", "D", "E", "F"}

HexVal(c) ==
    CASE c = "0" -> 0 [] c = "1" -> 1 [] c = "2" -> 2 [] c = "3" -> 3
      [] c = "4" -> 4 [] c = "5" -> 5 [] c = "6" -> 6 [] c = "7" -> 7
      [] c = "8" -> 8 [] c = "9" -> 9
      [] c \in {"a", "A"} -> 10 [] c \in {"b", "B"} -> 11 [] c \in {"c", "C"} -> 12
      [] c \in {"d", "D"} -> 13 [] c \in {"e", "E"} -> 14 [] c \in {"f", "F"} -> 15

\* String.fromCharCode for the ASCII codes the modelled requests use
AsciiChar(n) ==
    CASE n = 32 -> " " [] n = 37 -> "%" [] n = 47 -> "/" [] n = 65 -> "A"
      [] n = 97 -> "a" [] OTHER -> "?"

\* decodeURIComponent of one escape "%XY": a byte below 0x80 is an ASCII
\* character; any other byte alone is not valid UTF-8 and raises URIError.
DecodeEscapeThrows(x, y) == 16 * HexVal(x) + HexVal(y) >= 128

DecodeEscape(x, y) == AsciiChar(16 * HexVal(x) + HexVal(y))

IsEscapeAt(s, i) ==
    i + 2 <= Len(s) /\ s[i] = "%" /\ s[i + 1] \in HexDigits /\ s[i + 2] \in HexDigits

\* s.replace(/%[0-9A-Fa-f]{2}/g, (code) => decodeURIComponent(code)):
\* [ok |-> FALSE] when a callback raises, else the string with every escape
\* replaced.
RECURSIVE DecodeEscapes(_)
DecodeEscapes(s) ==
    IF s = <<>> THEN [ok |-> TRUE, val |-> <<>>]
    ELSE IF IsEscapeAt(s, 1)
    THEN IF DecodeEscapeThrows(s[2], s[3]) THEN [ok |-> FALSE, val |-> <<>>]
         ELSE LET rest == DecodeEscapes(Slice(s, 3))
              IN  [ok |-> rest.ok, val |-> <<DecodeEscape(s[2], s[3])>> \o rest.val]
    ELSE LET rest == DecodeEscapes(Tail(s))
         IN  [ok |-> rest.ok, val |-> <<s[1]>> \o rest.val]

-----------------------------------------------------------------------------
(* Object key order of the runtime *)

Digits == {"0", "1", "2", "3", "4", "5", "6", "7", "8", "9"}

RECURSIVE NumVal(_)
NumVal(s) == IF s = <<>> THEN 0 ELSE 10 * NumVal(SubSeq(s, 1, Len(s) - 1)) + HexVal(s[Len(s)])

\* A property key that is a canonical array index ("0", "7", "12", not "07")
IsArrayIndex(k) ==
    /\ Len(k) \in 1..9
    /\ \A i \in 1..Len(k) : k[i] \in Digits
    /\ (Len(k) > 1 => k[1] # "0")

\* Array.prototype.sort, which is stable: entry es[i] has the sort key ks[i]
\* and the result is in ascending key order, equal keys keeping their order.
RECURSIVE InsertKeyed(_, _, _, _)
InsertKeyed(x, kx, es, ks) ==
    IF es = <<>> THEN [es |-> <<x>>, ks |-> <<kx>>]
    ELSE IF kx < ks[1] THEN [es |-> <<x>> \o es, ks |-> <<kx>> \o ks]
    ELSE LET r == InsertKeyed(x, kx, Tail(es), Tail(ks))
         IN  [es |-> <<es[1]>> \o r.es, ks |-> <<ks[1]>> \o r.ks]

RECURSIVE StableSortKeyed(_, _)
StableSortKeyed(es, ks) ==
    IF es = <<>> THEN [es |-> <<>>, ks |-> <<>>]
    ELSE LET n == Len(es)
             r == StableSortKeyed(SubSeq(es, 1, n - 1), SubSeq(ks, 1, n - 1))
         IN  InsertKeyed(es[n], ks[n], r.es, r.ks)

\* Object.fromEntries followed by Object.entries: array-index keys first, in
\* ascending numeric order, then the other keys in insertion order.
ObjectFromEntries(es) ==
    LET IsIdx(e) == IsArrayIndex(e.prefix)
        NotIdx(e) == ~IsArrayIndex(e.prefix)
        idx == SelectSeq(es, IsIdx)
    IN  StableSortKeyed(idx, [i \in 1..Len(idx) |-> NumVal(idx[i].prefix)]).es
            \o SelectSeq(es, NotIdx)

-----------------------------------------------------------------------------
(* src/utils.ts *)

\* A configuration value as the parser leaves it: absent, one string, or an
\* array (a key given several times).
Undefined == [t |-> "undefined"]
Single(x) == [t |-> "string", s |-> x]
Array(xs) == [t |-> "array", items |-> xs]

toArray(data) ==
    CASE data.t = "array" -> data.items
      [] data.t = "string" -> IF data.s = <<>> THEN <<>> ELSE <<data.s>>
      [] OTHER -> <<>>

-----------------------------------------------------------------------------
(* Headers *)

Space == " "
Quotes == {"'", "\""}

\* String.prototype.toLowerCase, token by token
toLowerCase(tok) ==
    CASE tok = "Vary" -> "vary"
      [] tok = "Cache-Control" -> "cache-control"
      [] tok = "X-Frame-Options" -> "x-frame-options"
      [] tok = "X-My-Header" -> "x-my-header"
      [] tok = "X-Forwarded-For" -> "x-forwarded-for"
      [] tok = "Host" -> "host"
      [] tok = "Access-Control-Allow-Origin" -> "access-control-allow-origin"
      [] tok = "Access-Control-Allow-Methods" -> "access-control-allow-methods"
      [] tok = "Access-Control-Allow-Headers" -> "access-control-allow-headers"
      [] OTHER -> tok

\* s.replace(/^["']|["']$/g, '')
StripQuotes(s) ==
    LET a == IF s # <<>> /\ s[1] \in Quotes THEN Tail(s) ELSE s
    IN  IF a # <<>> /\ a[Len(a)] \in Quotes THEN SubSeq(a, 1, Len(a) - 1) ELSE a

parseHeader(header) ==
    LET i == IndexOf(header, Space)
        name == IF i = 0 THEN SubSeq(header, 1, Len(header) - 1) ELSE SubSeq(header, 1, i - 1)
        value == IF i = 0 THEN header ELSE Slice(header, i)
    IN  [name |-> StripQuotes([k \in 1..Len(name) |-> toLowerCase(name[k])]),
         value |-> StripQuotes(value)]

multi_value_headers ==
    {<<"cache-control">>, <<"accept-ranges">>, <<"content-encoding">>,
     <<"www-authenticate">>, <<"warning">>, <<"allow">>, <<"vary">>, <<"link">>}

\* A Headers object: a function from lower-case names to the list of values
\* given for the name (get() joins them with ", ").  A value is stored with
\* its leading and trailing white space removed.
RECURSIVE TrimLeft(_)
TrimLeft(v) == IF v # <<>> /\ v[1] = Space THEN TrimLeft(Tail(v)) ELSE v

RECURSIVE TrimRight(_)
TrimRight(v) ==
    IF v # <<>> /\ v[Len(v)] = Space THEN TrimRight(SubSeq(v, 1, Len(v) - 1)) ELSE v

Trim(v) == TrimRight(TrimLeft(v))

NoHeaders == [n \in {} |-> <<>>]

HeadersHas(h, name) == name \in DOMAIN h

HeadersSet(h, name, value) ==
    [n \in (DOMAIN h) \cup {name} |-> IF n = name THEN <<Trim(value)>> ELSE h[n]]

HeadersAppend(h, name, value) ==
    [n \in (DOMAIN h) \cup {name} |->
        IF n = name THEN (IF name \in DOMAIN h THEN h[n] ELSE <<>>) \o <<Trim(value)>>
        ELSE h[n]]

HeadersDelete(h, name) == [n \in (DOMAIN h) \ {name} |-> h[n]]

\* A request header has one value: get() of a name that is present
HeaderValue(h, name) == h[name][1]

-----------------------------------------------------------------------------
(* Location Table Builder: setupLocationActions *)

\* Object.assign(target, source) on ordered objects, as lists of
\* [name, arg]: a key already present keeps its place and takes the new
\* value, a new key goes to the end.
RECURSIVE ObjectAssign(_, _)
ObjectAssign(target, source) ==
    IF source = <<>> THEN target
    ELSE LET e == Head(source)
             at == {i \in 1..Len(target) : target[i].name = e.name}
             t2 == IF at = {} THEN Append(target, e)
                   ELSE [i \in 1..Len(target) |-> IF i \in at THEN e ELSE target[i]]
         IN  ObjectAssign(t2, Tail(source))

\* the groups merged with add_header as one more key of the shallow merge:
\* the entries of the last group that has some replace those before
RECURSIVE MergeGroupsOverwritingHeaders(_, _)
MergeGroupsOverwritingHeaders(location_actions, actions_cfg) ==
    IF actions_cfg = <<>> THEN location_actions
    ELSE LET actions == Head(actions_cfg)
         IN  MergeGroupsOverwritingHeaders(
                 [add_header |-> IF actions.add_header = Undefined
                                 THEN location_actions.add_header
                                 ELSE toArray(actions.add_header),
                  dirs |-> ObjectAssign(location_actions.dirs, actions.dirs)],
                 Tail(actions_cfg))

\* lines 457-461: the directive groups of one location, applied in order
RECURSIVE MergeGroups(_, _)
MergeGroups(location_actions, actions_cfg) ==
    IF actions_cfg = <<>> THEN location_actions
    ELSE LET actions == Head(actions_cfg)
         IN  MergeGroups(
                 [add_header |-> location_actions.add_header \o toArray(actions.add_header),
                  dirs |-> ObjectAssign(location_actions.dirs, actions.dirs)],
                 Tail(actions_cfg))

\* lines 448-466: one table entry per `location <prefix>` key, in key order
CollectLocations(locations) ==
    [i \in 1..Len(locations) |->
        [prefix |-> locations[i].prefix,
         actions |-> MergeGroups([add_header |-> <<>>, dirs |-> <<>>], locations[i].groups)]]

\* the comparator reversed: shortest prefix first
SortKeyShortestFirst(entry) == Len(entry.prefix)

\* lines 468: the comparator (a, b) => b[0].length - a[0].length
SortKey(entry) == 0 - Len(entry.prefix)

\* the table left in key order, lines 468-469 dropped
setupLocationActionsUnsorted(locations) == ObjectFromEntries(CollectLocations(locations))

\* lines 445-470
setupLocationActions(locations) ==
    LET collected == ObjectFromEntries(CollectLocations(locations))
        sorted_entries == StableSortKeyed(collected,
                              [i \in 1..Len(collected) |-> SortKey(collected[i])]).es
    IN  ObjectFromEntries(sorted_entries)

-----------------------------------------------------------------------------
(* Config Normalizer: ensureServers, getDefaultServer *)

IndexHtml == <<"i", "n", "d", "e", "x", ".", "h", "t", "m", "l">>
TryDefault == <<"$", "u", "r", "i", " ", "$", "u", "r", "i", "/", " ">>
Eq404 == <<"=", "4", "0", "4">>
SlashIndexHtml == <<"/">> \o IndexHtml
DollarUri == <<"$", "u", "r", "i">>

Dir(name, arg) == [name |-> name, arg |-> arg]
Group(add_header, dirs) == [add_header |-> add_header, dirs |-> dirs]
Location(prefix, groups) == [prefix |-> prefix, groups |-> groups]

\* the default server with a fixed try_files, whatever --spa says
getDefaultServerIgnoringSpa(opts) ==
    [root |-> opts.root,
     index |-> <<IndexHtml>>,
     add_header |-> <<>>,
     port |-> opts.port,
     locations |-> <<
         Location(<<"/">>, <<Group(Undefined, <<
             Dir("try_files", TryDefault \o Eq404)>>)>>)>>,
     location_actions |-> setupLocationActions(<<
         Location(<<"/">>, <<Group(Undefined, <<
             Dir("try_files", TryDefault \o Eq404)>>)>>)>>)]

\* lines 351-357 and 346; index is a list here, not a string to split.
\* locations are the `location <prefix>` keys of the object, which
\* setupLocationActions reads and leaves as they are
getDefaultServer(opts) ==
    [root |-> opts.root,
     index |-> <<IndexHtml>>,
     add_header |-> <<>>,
     port |-> opts.port,
     locations |-> <<
         Location(<<"/">>, <<Group(Undefined, <<
             Dir("try_files", TryDefault \o (IF opts.spa THEN SlashIndexHtml ELSE Eq404))>>)>>)>>,
     location_actions |-> setupLocationActions(<<
         Location(<<"/">>, <<Group(Undefined, <<
             Dir("try_files", TryDefault \o (IF opts.spa THEN SlashIndexHtml ELSE Eq404))>>)>>)>>)]

\* obj[key] of a parsed block: undefined when the block has no such key
Prop(obj, key) == IF key \in DOMAIN obj THEN obj[key] ELSE Undefined

\* a number, as against the string of its digits
Num(n) == [t |-> "number", n |-> n]

\* a value in a condition: undefined, 0 and "" are falsy
Truthy(v) ==
    CASE v.t = "number" -> v.n # 0
      [] v.t = "string" -> v.s # <<>>
      [] v.t = "array" -> TRUE
      [] OTHER -> FALSE

DigitChars == <<"0", "1", "2", "3", "4", "5", "6", "7", "8", "9">>

\* String(n) for n >= 0
RECURSIVE NumToStr(_)
NumToStr(n) ==
    IF n < 10 THEN <<DigitChars[n + 1]>>
    ELSE NumToStr(n \div 10) \o <<DigitChars[(n % 10) + 1]>>

\* the property key processed_servers[server.port] uses: String(port)
PortKey(port) ==
    CASE port.t = "number" -> NumToStr(port.n)
      [] port.t = "string" -> port.s
      [] OTHER -> <<"u", "n", "d", "e", "f", "i", "n", "e", "d">>

\* Number.isInteger(+addr), line 307, for an address made of digits,
\* letters, dots, colons and brackets (no exponent or radix prefix): true of
\* a run of digits, and of the empty string, which converts to 0
IsIntegerLiteral(addr) == \A i \in 1..Len(addr) : addr[i] \in Digits

\* the longest run of digits that ends the string
RECURSIVE TrailingDigits(_)
TrailingDigits(s) ==
    IF s = <<>> \/ s[Len(s)] \notin Digits THEN <<>>
    ELSE TrailingDigits(SubSeq(s, 1, Len(s) - 1)) \o <<s[Len(s)]>>

\* addr.match(LISTEN_ADDR_RE) with /((.+):)?(\d+)$/: no match (null) for an
\* address that does not end in a digit; else the port is the run of digits
\* at the end, a string, and the hostname is what precedes ":" and the run
ListenMatch(addr) ==
    LET port == TrailingDigits(addr)
        before == SubSeq(addr, 1, Len(addr) - Len(port))
    IN  IF port = <<>> THEN [ok |-> FALSE, hostname |-> Undefined, port |-> Undefined]
        ELSE [ok |-> TRUE,
              hostname |-> IF Len(before) >= 2 /\ before[Len(before)] = ":"
                           THEN Single(SubSeq(before, 1, Len(before) - 1))
                           ELSE Undefined,
              port |-> Single(port)]

\* lines 303-317: the listen directives of a block in order, each one
\* overwriting what the one before determined.  ok is FALSE when the
\* destructuring of a null match raises TypeError.
RECURSIVE ResolveListen(_, _)
ResolveListen(listens, acc) ==
    IF listens = <<>> \/ ~acc.ok THEN acc
    ELSE LET addr == Head(Split(Head(listens), " "))
             m == ListenMatch(addr)
         IN  ResolveListen(Tail(listens),
                 IF IsIntegerLiteral(addr) THEN [acc EXCEPT !.port = Num(NumVal(addr))]
                 ELSE IF ~m.ok THEN [acc EXCEPT !.ok = FALSE]
                 ELSE [acc EXCEPT !.port = m.port, !.hostname = m.hostname])

HTTPS_PORT == 443
HTTP_PORT == 80

\* lines 328-332
ResolvePort(cli_port, determined_port) ==
    IF Truthy(cli_port) THEN cli_port ELSE determined_port

\* lines 300-336 for one server block.  The `location <prefix>` keys of the
\* block (locations) stay as parsed: setupLocationActions takes add_header
\* out of a copy of each group (lines 458-459)
NormalizeServer(server, opts) ==
    LET listens == toArray(Prop(server, "listen"))
        l == ResolveListen(listens, [ok |-> TRUE, port |-> Undefined,
                                     hostname |-> Prop(server, "hostname")])
        determined_port ==
            IF listens # <<>> THEN l.port
            ELSE IF Truthy(Prop(server, "ssl")) \/ Truthy(Prop(server, "ssl_certificate"))
            THEN Num(HTTPS_PORT)
            ELSE Num(HTTP_PORT)
    IN  [root |-> server.root,
         index |-> Split(server.index, Space),
         add_header |-> toArray(server.add_header),
         port |-> ResolvePort(opts.port, determined_port),
         hostname |-> l.hostname,
         locations |-> server.locations,
         location_actions |-> setupLocationActions(server.locations)]

\* lines 338-339: processed_servers[server.port] ||= [] and push, the groups
\* as [key, servers] in the order their keys were created
RECURSIVE GroupByPort(_, _)
GroupByPort(servers, groups) ==
    IF servers = <<>> THEN groups
    ELSE LET server == Head(servers)
             key == PortKey(server.port)
             at == {i \in 1..Len(groups) : groups[i].key = key}
         IN  GroupByPort(Tail(servers),
                 IF at = {} THEN Append(groups, [key |-> key, servers |-> <<server>>])
                 ELSE [i \in 1..Len(groups) |->
                         IF i \in at
                         THEN [groups[i] EXCEPT !.servers = Append(@, server)]
                         ELSE groups[i]])

\* line 342, Object.values: the groups of array-index keys first, in
\* ascending numeric order, then the others in insertion order
ObjectValues(groups) ==
    LET IsIdx(g) == IsArrayIndex(g.key)
        NotIdx(g) == ~IsArrayIndex(g.key)
        idx == SelectSeq(groups, IsIdx)
        ordered == StableSortKeyed(idx, [i \in 1..Len(idx) |-> NumVal(idx[i].key)]).es
                       \o SelectSeq(groups, NotIdx)
    IN  [i \in 1..Len(ordered) |-> ordered[i].servers]

\* lines 288-349: global_config.http.server, the groups of servers to
\* start, those of the configuration by port or the default one
ensureServers(config, opts) ==
    IF config.server = <<>> THEN <<<<getDefaultServer(opts)>>>>
    ELSE ObjectValues(GroupByPort(
             [i \in 1..Len(config.server) |-> NormalizeServer(config.server[i], opts)],
             <<>>))

\* line 377 for the first group: each group is served by its first server
FirstServer(config, opts) == ensureServers(config, opts)[1][1]

\* line 310 raises TypeError for a listen directive of some block: the
\* error leaves ensureServers and run (line 58), and startServers (line 76)
\* is not reached
ensureServersThrows(config) ==
    \E i \in 1..Len(config.server) :
        ~ResolveListen(toArray(Prop(config.server[i], "listen")),
                       [ok |-> TRUE, port |-> Undefined,
                        hostname |-> Prop(config.server[i], "hostname")]).ok

\* no server was started: nothing listens and no request is handled
NotStarted ==
    [root |-> <<>>, index |-> <<>>, add_header |-> <<>>, port |-> Undefined,
     hostname |-> Undefined, locations |-> <<>>, location_actions |-> <<>>]

\* run, lines 58 and 76: the server that serves the requests
StartedServer(config, opts) ==
    IF ensureServersThrows(config) THEN NotStarted ELSE FirstServer(config, opts)

-----------------------------------------------------------------------------
(* Outcomes of a handler and of a request *)

EmptyBody == [kind |-> "empty"]
FileBody(path) == [kind |-> "file", path |-> path]

Response(status, body, headers) ==
    [kind |-> "response", status |-> status, body |-> body, headers |-> headers]

\* the handler returned undefined
Nothing == [kind |-> "undefined"]

\* the handler raised, or its promise was rejected
Throw(error) == [kind |-> "throw", error |-> error]

\* { status: HTTP_SWITCHING_PROTOCOLS }, a plain object
UpgradeMarker == [kind |-> "marker", status |-> HTTP_SWITCHING_PROTOCOLS]

-----------------------------------------------------------------------------
(* try_files, lines 109-132 *)

\* file(path).exists(): true of a regular file; the file system reads runs
\* of slashes as one
Exists(path, fs) == CollapseSlashes(path) \in fs

\* lines 119-123: the first index file that exists under the directory
RECURSIVE FirstIndex(_, _, _)
FirstIndex(file_path, index, fs) ==
    IF index = <<>> THEN Nothing
    ELSE IF Exists(file_path \o Head(index), fs)
    THEN Response(HTTP_OK, FileBody(CollapseSlashes(file_path \o Head(index))), NoHeaders)
    ELSE FirstIndex(file_path, Tail(index), fs)

RECURSIVE TryEntries(_, _, _, _)
TryEntries(entries, pathname, cfg, fs) ==
    IF entries = <<>> THEN Nothing
    ELSE LET entry == Head(entries)
             decoded == DecodeEscapes(ReplaceFirst(entry, DollarUri, pathname))
             file_path == cfg.root \o decoded.val
         IN  IF entry = Eq404 THEN Response(HTTP_NOT_FOUND, EmptyBody, NoHeaders)
             ELSE IF ~decoded.ok THEN Throw("URIError")
             ELSE IF EndsWith(entry, <<"/">>)
             THEN LET hit == FirstIndex(file_path, cfg.index, fs)
                  IN  IF hit.kind = "response" THEN hit
                      ELSE TryEntries(Tail(entries), pathname, cfg, fs)
             ELSE IF Exists(file_path, fs)
             THEN Response(HTTP_OK, FileBody(CollapseSlashes(file_path)), NoHeaders)
             ELSE TryEntries(Tail(entries), pathname, cfg, fs)

try_files(argument, req, cfg, fs) == TryEntries(Split(argument, Space), req.path, cfg, fs)

-----------------------------------------------------------------------------
(* proxy_pass, lines 134-193 *)

\* A proxy_pass argument is <<origin>> \o path: its origin ("http://host:port")
\* as one token, then the characters that follow it.  new URL(argument)
\* raises for an argument that does not start with an origin.
UrlOrigins == {"http://127.0.0.1:23455", "http://upstream"}

IsUrl(target) == target # <<>> /\ target[1] \in UrlOrigins

\* new URL(target).pathname: "/" for an argument that ends with its origin
BasePathname(target) == IF Len(target) = 1 THEN <<"/">> ELSE Tail(target)

\* the prefix stripped whenever the target ends in a slash
should_strip_prefix_target_only(target_url, path_prefix) == EndsWith(target_url, <<"/">>)

\* line 142
should_strip_prefix(target_url, path_prefix) ==
    EndsWith(target_url, <<"/">>) /\ (path_prefix = <<>> \/ EndsWith(path_prefix, <<"/">>))

\* lines 138-149: [ok, url]; the URL is origin, pathname and search
TargetUrl(target_url, req, path_prefix) ==
    LET path_to_append ==
            IF should_strip_prefix(target_url, path_prefix)
            THEN Slice(req.path, Len(path_prefix))
            ELSE req.path
        final_path == CollapseSlashes(BasePathname(target_url) \o path_to_append)
    IN  IF ~IsUrl(target_url) THEN [ok |-> FALSE]
        ELSE [ok |-> TRUE,
              url |-> [origin |-> target_url[1], pathname |-> final_path, search |-> req.search]]

H_Host == <<"host">>
H_XFHost == <<"x-forwarded-host">>
H_XFFor == <<"x-forwarded-for">>
H_XFProto == <<"x-forwarded-proto">>
H_XFPrefix == <<"x-forwarded-prefix">>
H_ContentEncoding == <<"content-encoding">>

\* an X-Forwarded-For sent by the client is kept
ForwardingHeadersKeepingClientFor(req, path_prefix) ==
    LET h0 == HeadersDelete(req.headers, H_Host)
        h1 == HeadersSet(h0, H_XFHost, req.host)
        h2 == IF HeadersHas(h1, H_XFFor) THEN h1 ELSE HeadersSet(h1, H_XFFor, req.client)
        h3 == HeadersSet(h2, H_XFProto, req.proto)
    IN  HeadersSet(h3, H_XFPrefix, path_prefix)

\* lines 161-165
ForwardingHeaders(req, path_prefix) ==
    LET h0 == HeadersDelete(req.headers, H_Host)
        h1 == HeadersSet(h0, H_XFHost, req.host)
        h2 == HeadersSet(h1, H_XFFor, req.client)
        h3 == HeadersSet(h2, H_XFProto, req.proto)
    IN  HeadersSet(h3, H_XFPrefix, path_prefix)

\* lines 167-171
RECURSIVE ApplyProxySetHeader(_, _)
ApplyProxySetHeader(h, entries) ==
    IF entries = <<>> THEN h
    ELSE LET nv == parseHeader(Head(entries))
         IN  ApplyProxySetHeader(HeadersSet(h, nv.name, nv.value), Tail(entries))

\* actions.proxy_set_header: the value of the key, undefined when absent
Lookup(dirs, name) ==
    IF \E i \in 1..Len(dirs) : dirs[i].name = name
    THEN (CHOOSE d \in {dirs[i] : i \in {j \in 1..Len(dirs) : dirs[j].name = name}} : TRUE).arg
    ELSE Undefined

\* lines 187-191
RelayResponse(up) ==
    LET strip == /\ HeadersHas(up.headers, H_ContentEncoding)
                 /\ up.headers[H_ContentEncoding] \in {<<<<"gzip">>>>, <<<<"zstd">>>>}
    IN  Response(up.status, [kind |-> "upstream"],
                 IF strip THEN HeadersDelete(up.headers, H_ContentEncoding) ELSE up.headers)

\* the message of the TypeError that new URL(target) raises
UrlErrorMessage(target) == [error |-> "TypeError", invalid_url |-> target]

\* line 153: the response of the catch block, whose body is the text
\* `Error constructing proxy URL: ` followed by e.message
ProxyUrlError(target) ==
    Response(HTTP_SERVER_ERROR,
             [kind |-> "text", text |-> "Error constructing proxy URL: ",
              message |-> UrlErrorMessage(target)],
             NoHeaders)

\* the handler with the upgrade tried before the URL is constructed
proxy_passUpgradingFirst(argument, actions, req, path_prefix, up) ==
    LET target == TargetUrl(argument, req, path_prefix)
        headers == ApplyProxySetHeader(ForwardingHeaders(req, path_prefix),
                                       toArray(Lookup(actions.dirs, "proxy_set_header")))
        sent == [url |-> target.url, method |-> req.method, headers |-> headers]
    IN  IF req.upgrade THEN [out |-> UpgradeMarker, upstream |-> <<>>, logged |-> <<>>]
        ELSE IF ~target.ok
        THEN [out |-> ProxyUrlError(argument), upstream |-> <<>>, logged |-> <<"error">>]
        ELSE IF up.kind = "reject"
        THEN [out |-> Throw(up.code), upstream |-> <<sent>>, logged |-> <<>>]
        ELSE [out |-> RelayResponse(up), upstream |-> <<sent>>, logged |-> <<>>]

\* The handler: [out, upstream, logged], upstream being the requests it sent
\* to the upstream by HTTP and logged the levels of its console.warn and
\* console.error lines.  up is what the upstream does with a forwarded
\* request.
proxy_pass(argument, actions, req, path_prefix, up) ==
    LET target == TargetUrl(argument, req, path_prefix)
        headers == ApplyProxySetHeader(ForwardingHeaders(req, path_prefix),
                                       toArray(Lookup(actions.dirs, "proxy_set_header")))
        sent == [url |-> target.url, method |-> req.method, headers |-> headers]
    IN  IF ~target.ok
        THEN [out |-> ProxyUrlError(argument), upstream |-> <<>>, logged |-> <<"error">>]
        ELSE IF req.upgrade THEN [out |-> UpgradeMarker, upstream |-> <<>>, logged |-> <<>>]
        ELSE IF up.kind = "reject"
        THEN [out |-> Throw(up.code), upstream |-> <<sent>>, logged |-> <<>>]
        ELSE [out |-> RelayResponse(up), upstream |-> <<sent>>, logged |-> <<>>]

-----------------------------------------------------------------------------
(* Header Cascade: setResponseHeaders, withHeaders *)

\* every name treated as single-valued: set, never append
RECURSIVE setResponseHeadersSetOnly(_, _)
setResponseHeadersSetOnly(h, headers) ==
    IF headers = <<>> THEN [ok |-> TRUE, headers |-> h]
    ELSE LET nv == parseHeader(Head(headers))
         IN  IF nv.name = <<>> THEN [ok |-> FALSE, headers |-> h]
             ELSE setResponseHeadersSetOnly(HeadersSet(h, nv.name, nv.value), Tail(headers))

\* lines 276-286 over a list of entries: [ok, headers]; a Headers object
\* raises TypeError for an empty header name
RECURSIVE setResponseHeaders(_, _)
setResponseHeaders(h, headers) ==
    IF headers = <<>> THEN [ok |-> TRUE, headers |-> h]
    ELSE LET nv == parseHeader(Head(headers))
         IN  IF nv.name = <<>> THEN [ok |-> FALSE, headers |-> h]
             ELSE setResponseHeaders(
                      IF nv.name \in multi_value_headers
                      THEN HeadersAppend(h, nv.name, nv.value)
                      ELSE HeadersSet(h, nv.name, nv.value),
                      Tail(headers))

\* `for (const header of headers || [])` over a raw configuration value: a
\* string is iterated character by character, and no character has a name
IterateRaw(h, raw) ==
    CASE raw.t = "array" -> setResponseHeaders(h, raw.items)
      [] raw.t = "string" -> IF raw.s = <<>> THEN [ok |-> TRUE, headers |-> h]
                             ELSE [ok |-> FALSE, headers |-> h]
      [] OTHER -> [ok |-> TRUE, headers |-> h]

\* lines 248-256, the global and the location scope given as raw values
withHeaders(response, location_scope, cfg, config) ==
    LET g == IterateRaw(response.headers, config.add_header)
        s == setResponseHeaders(g.headers, cfg.add_header)
        l == IterateRaw(s.headers, location_scope)
    IN  IF g.ok /\ s.ok /\ l.ok
        THEN [response EXCEPT !.headers = l.headers]
        ELSE Throw("TypeError")

-----------------------------------------------------------------------------
(* Action Executor: runActions, lines 199-246 *)

H_Origin == <<"origin">>
H_ACRequestHeaders == <<"access-control-request-headers">>
H_ACRequestMethod == <<"access-control-request-method">>
H_ACAllowOrigin == <<"access-control-allow-origin">>
H_ACAllowHeaders == <<"access-control-allow-headers">>
H_ACAllowMethods == <<"access-control-allow-methods">>

AllowMethodsValue == <<"GET,", Space, "POST,", Space, "OPTIONS">>

\* n.startsWith(literal) for an entry n and a literal that is one token
EntryStartsWith(n, literal) == n # <<>> /\ n[1] = literal

\* lines 201-215: the entries pushed onto actions.add_header
CorsAdditions(add_header, req, config) ==
    LET origin == IF HeadersHas(req.headers, H_Origin)
                  THEN HeaderValue(req.headers, H_Origin) ELSE <<>>
        acrh == IF HeadersHas(req.headers, H_ACRequestHeaders)
                THEN HeaderValue(req.headers, H_ACRequestHeaders) ELSE <<>>
        has(lit) == \E i \in 1..Len(add_header) : EntryStartsWith(add_header[i], lit)
    IN  IF config.cors /\ origin # <<>>
        THEN <<H_ACAllowOrigin \o <<Space>> \o origin>>
             \o (IF has(H_ACAllowHeaders[1]) THEN <<>>
                 ELSE <<H_ACAllowHeaders \o <<Space>> \o acrh>>)
             \o (IF has(H_ACAllowMethods[1]) THEN <<>>
                 ELSE <<H_ACAllowMethods \o <<Space>> \o AllowMethodsValue>>)
        ELSE <<>>

\* line 217
IsPreflight(req) ==
    req.method = "OPTIONS" /\ HeadersHas(req.headers, H_ACRequestMethod)

OptionsKey == "if ($request_method = 'OPTIONS')"

\* value.replace(/['"] always/, ''): the first quote followed by " always"
StripAlways(v) ==
    LET hits == {i \in 1..(Len(v) - 2) :
                    v[i] \in Quotes /\ v[i + 1] = Space /\ v[i + 2] = "always"}
    IN  IF hits = {} THEN v
        ELSE LET i == CHOOSE k \in hits : \A j \in hits : k <= j
             IN  SubSeq(v, 1, i - 1) \o SubSeq(v, i + 3, Len(v))

\* lines 221-232 on the headers of the response of the OPTIONS group
FixPreflightHeaders(h) ==
    LET h1 == IF HeadersHas(h, H_ACAllowOrigin) /\ h[H_ACAllowOrigin][1] # <<>>
                 /\ h[H_ACAllowOrigin][1][1] = "*"
              THEN HeadersSet(h, H_ACAllowOrigin, <<"*">>) ELSE h
        h2 == IF HeadersHas(h1, H_ACAllowMethods) /\ h1[H_ACAllowMethods][1] # <<>>
              THEN HeadersSet(h1, H_ACAllowMethods, StripAlways(h1[H_ACAllowMethods][1]))
              ELSE h1
    IN  IF HeadersHas(h2, H_ACAllowHeaders) /\ h2[H_ACAllowHeaders][1] # <<>>
        THEN HeadersSet(h2, H_ACAllowHeaders, StripAlways(h2[H_ACAllowHeaders][1]))
        ELSE h2

\* the longest run of digits that starts the string
RECURSIVE LeadingDigits(_)
LeadingDigits(s) ==
    IF s = <<>> \/ s[1] \notin Digits THEN <<>>
    ELSE <<s[1]>> \o LeadingDigits(Tail(s))

\* parseInt(value) || fallback: the fallback for an absent value, for one
\* that does not start with a digit (NaN), and for 0
ParseIntOr(value, fallback) ==
    IF value.t # "string" \/ LeadingDigits(value.s) = <<>>
            \/ NumVal(LeadingDigits(value.s)) = 0
    THEN fallback
    ELSE NumVal(LeadingDigits(value.s))

\* line 220: parseInt(options_actions.return) || 204
PreflightStatus(options_actions) == ParseIntOr(options_actions.return, HTTP_NO_CONTENT)

\* lines 217-238: the answer to a preflight request; actions is the rule
\* after the CORS additions
Preflight(actions, cfg, config) ==
    LET options_actions == Lookup(actions.dirs, OptionsKey)
    IN  IF options_actions.t = "block"
        THEN LET response == withHeaders(
                     Response(PreflightStatus(options_actions), EmptyBody, NoHeaders),
                     options_actions.add_header, cfg, config)
             IN  IF response.kind = "response"
                 THEN [response EXCEPT !.headers = FixPreflightHeaders(response.headers)]
                 ELSE response
        ELSE withHeaders(Response(HTTP_OK, EmptyBody, NoHeaders),
                         Array(actions.add_header), cfg, config)

HandlerNames == {"try_files", "proxy_pass", "proxy_http_version", "proxy_cache_bypass"}

\* the loop left only by a handler that raises
StopsLoopOnlyOnThrow(out) == out.kind = "throw"

\* lines 241-242: the loop is left by a handler that raises and by a result
\* whose status is >= 200
StopsLoop(out) ==
    \/ out.kind = "throw"
    \/ out.kind = "response" /\ out.status >= HTTP_OK

\* lines 240-245 without the cascade: the directives in order, up to the
\* first whose result has a status >= 200.  [out, handlers, upstream,
\* upgraded, logged]: the result, the handlers invoked, the requests sent
\* upstream, whether a WebSocket upgrade was made, the warnings and errors
\* written to the console.
RECURSIVE RunDirectives(_, _, _, _, _, _, _)
RunDirectives(dirs, actions, req, path_prefix, cfg, fs, up) ==
    IF dirs = <<>>
    THEN [out |-> Nothing, handlers |-> <<>>, upstream |-> <<>>, upgraded |-> FALSE,
          logged |-> <<>>]
    ELSE LET d == Head(dirs)
             r == CASE d.name = "try_files" ->
                         [out |-> try_files(d.arg, req, cfg, fs), upstream |-> <<>>,
                          logged |-> <<>>]
                    [] d.name = "proxy_pass" ->
                         proxy_pass(d.arg, actions, req, path_prefix, up)
                    [] OTHER -> [out |-> Nothing, upstream |-> <<>>, logged |-> <<>>]
             invoked == IF d.name \in HandlerNames THEN <<d.name>> ELSE <<>>
             stop == StopsLoop(r.out)
             rest == RunDirectives(Tail(dirs), actions, req, path_prefix, cfg, fs, up)
         IN  IF stop
             THEN [out |-> r.out, handlers |-> invoked, upstream |-> r.upstream,
                   upgraded |-> FALSE, logged |-> r.logged]
             ELSE [out |-> rest.out, handlers |-> invoked \o rest.handlers,
                   upstream |-> r.upstream \o rest.upstream,
                   upgraded |-> (r.out.kind = "marker") \/ rest.upgraded,
                   logged |-> r.logged \o rest.logged]

\* lines 240-245: the loop and the cascade over its response
runDirectivesWithHeaders(actions, req, path_prefix, cfg, config, fs, up) ==
    LET r == RunDirectives(actions.dirs, actions, req, path_prefix, cfg, fs, up)
    IN  IF r.out.kind = "response"
        THEN [r EXCEPT !.out = withHeaders(r.out, Array(actions.add_header), cfg, config)]
        ELSE r

-----------------------------------------------------------------------------
(* Request Dispatcher: the fetch handler of startServer, lines 386-420 *)

\* lines 411-417: the first entry, in table order, whose prefix starts the
\* path; 0 when there is none
MatchIndex(table, pathname) ==
    LET hits == {i \in 1..Len(table) : StartsWith(pathname, table[i].prefix)}
    IN  IF hits = {} THEN 0 ELSE CHOOSE i \in hits : \A j \in hits : i <= j

RuleOf(table, prefix) == table[CHOOSE i \in 1..Len(table) : table[i].prefix = prefix].actions

NoPrefix == <<"<no location>">>

\* the upstream was not reached
NoUpstream == [kind |-> "none", status |-> 0, code |-> "", headers |-> NoHeaders]

\* What the client, the upstream and the console saw of one request: the rule
\* that ran, the result, the handlers invoked, the requests sent upstream,
\* the location-scope list the cascade was given (scope), the warnings and
\* errors logged, what the upstream did (up), and the configurations loaded
\* by the watcher before the request started and before it finished
Exchange(req, prefix, r, scope, started, up) ==
    [kind |-> "done", req |-> req, prefix |-> prefix, out |-> r.out,
     handlers |-> r.handlers, upstream |-> r.upstream, upgraded |-> r.upgraded,
     scope |-> scope, log |-> r.logged, up |-> up,
     started |-> started, finished |-> global_config.loaded]

Immediate(out) ==
    [out |-> out, handlers |-> <<>>, upstream |-> <<>>, upgraded |-> FALSE,
     logged |-> <<>>]

-----------------------------------------------------------------------------
(* Configurations, file trees and clients of the runs *)

SRV == <<"/", "s", "r", "v">>
P_root == <<"/">>
P_a == <<"/", "a">>
P_b == <<"/", "b">>
P_a_ == <<"/", "a", "/">>
P_ab == <<"/", "a", "b">>
P_a_b == <<"/", "a", "/", "b">>
P_1 == <<"1">>
P_12 == <<"1", "2">>
PrefixPool == {P_root, P_a, P_b, P_a_, P_ab, P_1, P_12}
RoutePaths == {P_root, P_a, P_ab, P_a_b, P_b}

\* src/unnamed/part_006, the configuration of the proxy tests
P_upstream_ == <<"/", "u", "p", "s", "t", "r", "e", "a", "m", "/">>
P_upstream_123 == <<"/", "u", "p", "s", "t", "r", "e", "a", "m", "-", "1", "2", "3">>
P_upstream_123_qwe == <<"/", "u", "p", "s", "t", "r", "e", "a", "m", "-", "1", "2", "3", "-", "q", "w", "e">>
P_upstream_asd_123 == <<"/", "u", "p", "s", "t", "r", "e", "a", "m", "-", "a", "s", "d", "-", "1", "2", "3">>
P_upstream_asd == <<"/", "u", "p", "s", "t", "r", "e", "a", "m", "-", "a", "s", "d">>
P_upstream == <<"/", "u", "p", "s", "t", "r", "e", "a", "m">>
P_upstream_index == <<"/", "u", "p", "s", "t", "r", "e", "a", "m", "/", "i", "n", "d", "e", "x", ".", "h", "t", "m", "l">>
P_upstream_123_x == <<"/", "u", "p", "s", "t", "r", "e", "a", "m", "-", "1", "2", "3", "-", "x">>
TestRoot == <<"s", "e", "r", "v", "e", "r", "_", "r", "o", "o", "t", "_", "u", "p", "s", "t", "r", "e", "a", "m">>
TestIndex == <<"i", "n", "d", "e", "x", ".", "h", "t", "m", "l", " ", "i", "n", "d", "e", "x", ".", "h", "t", "m", " ", "i", "n", "d", "e", "x", ".", "n", "g", "i", "n", "x", "-", "d", "e", "b", "i", "a", "n", ".", "h", "t", "m", "l">>
TestUpstream == <<"http://127.0.0.1:23455">>

TestConfig ==
    [add_header |-> Undefined,
     server |-> <<
        [listen |-> Single(<<"2", "3", "4", "5", "6", " ", "d", "e", "f", "a", "u", "l", "t", "_",
                             "s", "e", "r", "v", "e", "r">>),
         root |-> TestRoot, index |-> TestIndex, add_header |-> Undefined,
         locations |-> <<
            Location(P_upstream_, <<Group(Undefined, <<
                Dir("proxy_pass", TestUpstream \o <<"/">>),
                Dir("proxy_set_header", Single(<<"X-My-Header", Space, "foo">>))>>)>>),
            Location(P_upstream_123, <<Group(Undefined, <<Dir("proxy_pass", TestUpstream)>>)>>),
            Location(P_upstream_123_qwe, <<Group(Undefined, <<Dir("proxy_pass", TestUpstream)>>)>>),
            Location(P_upstream_asd_123, <<Group(Undefined, <<Dir("proxy_pass", TestUpstream)>>)>>),
            Location(P_upstream_asd, <<Group(Undefined, <<Dir("proxy_pass", TestUpstream)>>)>>)
         >>]>>]

\* proxy_pass variants: prefix with and without a trailing slash against
\* targets with and without one, and a target that is no URL
P_api_ == <<"/", "a", "p", "i", "/">>
P_api == <<"/", "a", "p", "i">>
P_api_foo == <<"/", "a", "p", "i", "/", "f", "o", "o">>
P_api__foo == <<"/", "a", "p", "i", "/", "/", "f", "o", "o">>
P_apix == <<"/", "a", "p", "i", "x">>
P_base == <<"/", "b", "a", "s", "e">>
ProxyTargets ==
    << <<"http://upstream">>, <<"http://upstream", "/">>,
       <<"http://upstream">> \o P_base, <<"http://upstream">> \o P_base \o <<"/">>,
       <<"upstream">> >>
ProxyPrefixes == <<P_api_, P_api>>
ProxyVariants == Len(ProxyTargets) * Len(ProxyPrefixes)

ProxyTargetOf(n) == ProxyTargets[((n - 1) \div 2) + 1]
ProxyPrefixOf(n) == ProxyPrefixes[((n - 1) % 2) + 1]

ProxyConfig(n, with_set_header) ==
    [add_header |-> Undefined,
     server |-> <<
        [root |-> SRV, index |-> IndexHtml, add_header |-> Undefined,
         locations |-> <<
            Location(ProxyPrefixOf(n), <<Group(Undefined,
                <<Dir("proxy_http_version", <<"1.1">>)>>
                \o (IF with_set_header
                    THEN <<Dir("proxy_set_header", Array(<<
                              <<"X-Forwarded-For", Space, "10.0.0.1">>,
                              <<"Host", Space, "$host">>,
                              <<"'", "X-My-Header", "'", Space, "\"", "a", Space, "b", "\"">>,
                              <<"x-my-header", Space, "last">> >>))>>
                    ELSE <<>>)
                \o <<Dir("proxy_pass", ProxyTargetOf(n))>>)>>)
         >>]>>]

\* static files
F_index == SRV \o SlashIndexHtml
F_a_txt == SRV \o <<"/", "a", ".", "t", "x", "t">>
F_A_txt == SRV \o <<"/", "A", ".", "t", "x", "t">>
F_docs == SRV \o <<"/", "d", "o", "c", "s">>
F_docs_index == SRV \o <<"/", "d", "o", "c", "s", "/", "i", "n", "d", "e", "x", ".", "h", "t", "m", "l">>
F_docs_htm == SRV \o <<"/", "d", "o", "c", "s", "/", "i", "n", "d", "e", "x", ".", "h", "t", "m">>
P_a_txt == <<"/", "a", ".", "t", "x", "t">>
P_docs == <<"/", "d", "o", "c", "s">>
P_docs_ == <<"/", "d", "o", "c", "s", "/">>
P_missing == <<"/", "m", "i", "s", "s", "i", "n", "g">>
P_spa_route == <<"/", "s", "p", "a", "/", "r", "o", "u", "t", "e">>
P_escA_txt == <<"/", "%", "4", "1", ".", "t", "x", "t">>
P_esc_e_acute == <<"/", "%", "C", "3", "%", "A", "9">>
P_dollars == <<"/", "$", "$">>
F_dollars == SRV \o P_dollars
\* U+00E9, one character, whose UTF-8 encoding is the bytes C3 A9
EAcute == "U+00E9"
F_e_acute == SRV \o <<"/", EAcute>>
TwoIndexes == <<"i", "n", "d", "e", "x", ".", "h", "t", "m", "l", " ", "i", "n", "d", "e", "x", ".", "h", "t", "m">>

FileTrees ==
    << {}, {F_index}, {F_index, F_a_txt, F_A_txt, F_docs_index},
       {F_index, F_docs_htm}, {F_docs_index, F_docs_htm, F_e_acute}, {F_docs, F_dollars} >>

StaticConfig ==
    [add_header |-> Undefined,
     server |-> <<
        [root |-> SRV, index |-> TwoIndexes, add_header |-> Undefined,
         locations |-> <<
            Location(P_root, <<Group(Undefined, <<Dir("try_files", TryDefault \o Eq404)>>)>>)
         >>]>>]

\* no server block: ensureServers falls back to the default server
EmptyConfig == [add_header |-> Undefined, server |-> <<>>]

\* add_header at the three scopes; with OPTIONS groups, `location /` has one
\* with no return and two add_header, /docs one with `return 403` and one
\* add_header, /a.txt one with `return 418 no` and no add_header, and the
\* location of the application route one with `return ok` and two
\* add_header
HeadersConfig(with_options_group) ==
    [add_header |-> Array(<<
        <<"Vary", Space, "Accept-Encoding">>,
        <<"X-Frame-Options", Space, "DENY">> >>),
     server |-> <<
        [root |-> SRV, index |-> IndexHtml,
         add_header |-> Array(<<
            <<"Vary", Space, "Origin">>,
            <<"'", "Cache-Control", "'", Space, "\"", "no-cache", "\"">>,
            <<"x-server", Space, "zerv">> >>),
         locations |-> <<
            Location(P_root, <<
                Group(Single(<<"Vary", Space, "Accept">>),
                      <<Dir("try_files", TryDefault \o Eq404)>>),
                Group(Single(<<"X-Frame-Options", Space, "SAMEORIGIN">>),
                      IF with_options_group
                      THEN <<Dir(OptionsKey,
                                 [t |-> "block", return |-> Undefined,
                                  add_header |-> Array(<<
                                     <<"'", "Access-Control-Allow-Origin", "'", Space,
                                       "'", "*", "'", Space, "always">>,
                                     <<"Access-Control-Allow-Methods", Space,
                                       "'", "GET,", Space, "OPTIONS", "'", Space, "always">> >>)])>>
                      ELSE <<>>)>>),
            Location(P_api_, <<Group(Undefined, <<
                Dir("proxy_pass", <<"http://upstream", "/">>)>>)>>)
         >> \o (IF with_options_group
                THEN <<
                    Location(P_docs, <<Group(Undefined, <<
                        Dir("try_files", TryDefault \o Eq404),
                        Dir(OptionsKey,
                            [t |-> "block", return |-> Single(<<"4", "0", "3">>),
                             add_header |-> Single(<<"X-Preflight", Space, "denied">>)])>>)>>),
                    Location(P_a_txt, <<Group(Undefined, <<
                        Dir("try_files", TryDefault \o Eq404),
                        Dir(OptionsKey,
                            [t |-> "block", return |-> Single(<<"4", "1", "8", " ", "n", "o">>),
                             add_header |-> Undefined])>>)>>),
                    Location(P_spa_route, <<Group(Undefined, <<
                        Dir("try_files", TryDefault \o Eq404),
                        Dir(OptionsKey,
                            [t |-> "block", return |-> Single(<<"o", "k">>),
                             add_header |-> Array(<<
                                <<"X-Preflight", Space, "fine">>,
                                <<"Vary", Space, "Access-Control-Request-Method">> >>)])>>)>>)
                >>
                ELSE <<>>)]>>]

\* Two server blocks: the first with no listen directive (1), with no listen
\* directive and a TLS certificate (2), with `listen 8080` (3), with
\* `listen localhost:8081` (4), with `listen 8080 default_server` and
\* `listen [::]:8082` (5), with `listen localhost` and `listen 8083` (6);
\* the second with `listen 8080`
ListenVariants ==
    <<[listen |-> Undefined, ssl_certificate |-> Undefined],
      [listen |-> Undefined, ssl_certificate |-> Single(<<"c", "e", "r", "t", ".", "p", "e", "m">>)],
      [listen |-> Single(<<"8", "0", "8", "0">>), ssl_certificate |-> Undefined],
      [listen |-> Single(<<"l", "o", "c", "a", "l", "h", "o", "s", "t", ":", "8", "0", "8", "1">>),
       ssl_certificate |-> Undefined],
      [listen |-> Array(<<
            <<"8", "0", "8", "0", " ", "d", "e", "f", "a", "u", "l", "t", "_",
              "s", "e", "r", "v", "e", "r">>,
            <<"[", ":", ":", "]", ":", "8", "0", "8", "2">> >>),
       ssl_certificate |-> Undefined],
      [listen |-> Array(<<
            <<"l", "o", "c", "a", "l", "h", "o", "s", "t">>,
            <<"8", "0", "8", "3">> >>),
       ssl_certificate |-> Undefined]>>

ListenConfig(n) ==
    [add_header |-> Undefined,
     server |-> <<
        [listen |-> ListenVariants[n].listen,
         ssl_certificate |-> ListenVariants[n].ssl_certificate,
         root |-> SRV, index |-> IndexHtml, add_header |-> Undefined,
         locations |-> <<
            Location(P_root, <<Group(Undefined, <<Dir("try_files", TryDefault \o Eq404)>>)>>)
         >>],
        [listen |-> Single(<<"8", "0", "8", "0">>),
         root |-> SRV, index |-> IndexHtml, add_header |-> Undefined,
         locations |-> <<
            Location(P_b, <<Group(Undefined, <<Dir("try_files", Eq404)>>)>>)
         >>]>>]

\* the positional argument [<hostname>:]<port> of the command line: absent,
\* 3000, or 0 (a port picked by the system)
CliPorts == <<<<>>, <<"3", "0", "0", "0">>, <<"0">>>>

\* a "listen" run n has one variant of the first block and one command line
ListenVariantOf(n) == ((n - 1) % Len(ListenVariants)) + 1
CliPortOf(n) == CliPorts[((n - 1) \div Len(ListenVariants)) + 1]

\* one location whose directives are, in order: a handler that does nothing,
\* a directive with no handler, a try_files with no fallback, another handler
\* that does nothing, proxy_pass, and a directive with no handler
ChainConfig ==
    [add_header |-> Undefined,
     server |-> <<
        [root |-> SRV, index |-> IndexHtml, add_header |-> Undefined,
         locations |-> <<
            Location(P_root, <<Group(Single(<<"x-chain", Space, "1">>), <<
                Dir("proxy_http_version", <<"1.1">>),
                Dir("gzip", <<"on">>),
                Dir("try_files", DollarUri),
                Dir("proxy_cache_bypass", <<"$http_upgrade">>),
                Dir("proxy_pass", <<"http://upstream", "/">>),
                Dir("expires", <<"1d">>)>>)>>)
         >>]>>]

\* the nginx variable for the Access-Control-Request-Headers of the request
HttpAccessControlRequestHeaders == "$http_access_control_request_headers"

\* one location declared three times: try_files and expires are given
\* twice, add_header in the first group (twice), in the second (once) and in
\* the third (once, with the nginx variable as its value)
GroupsConfig ==
    [add_header |-> Undefined,
     server |-> <<
        [root |-> SRV, index |-> IndexHtml, add_header |-> Undefined,
         locations |-> <<
            Location(P_root, <<
                Group(Array(<< <<"Vary", Space, "Accept">>,
                               <<"X-Frame-Options", Space, "DENY">> >>),
                      <<Dir("try_files", DollarUri \o <<Space>> \o Eq404),
                        Dir("expires", <<"1d">>)>>),
                Group(Single(<<"X-Frame-Options", Space, "SAMEORIGIN">>),
                      <<Dir("proxy_http_version", <<"1.1">>),
                        Dir("try_files", TryDefault \o Eq404)>>),
                Group(Single(<<"Access-Control-Allow-Headers", Space,
                               HttpAccessControlRequestHeaders>>),
                      <<Dir("expires", <<"2d">>)>>)>>)
         >>]>>]

\* one location that proxies, with directives after proxy_pass: a handler
\* that does nothing and a try_files with a fallback
UpgradeConfig ==
    [add_header |-> Undefined,
     server |-> <<
        [root |-> SRV, index |-> IndexHtml, add_header |-> Undefined,
         locations |-> <<
            Location(P_root, <<Group(Undefined, <<
                Dir("proxy_pass", <<"http://upstream", "/">>),
                Dir("proxy_http_version", <<"1.1">>),
                Dir("try_files", DollarUri \o <<Space>> \o Eq404)>>)>>)
         >>]>>]

RouteScenarios ==
    {[kind |-> "route", p |-> p, n |-> 0, b |-> FALSE] :
        p \in UNION {{q \in [1..k -> PrefixPool] : \A i, j \in 1..k : i # j => q[i] # q[j]}
                       : k \in 1..MaxLocs}}

Scenarios ==
    RouteScenarios
    \cup {[kind |-> "upstream", p |-> <<>>, n |-> 0, b |-> FALSE]}
    \cup {[kind |-> "proxy", p |-> <<>>, n |-> n, b |-> b] :
            n \in 1..ProxyVariants, b \in BOOLEAN}
    \cup {[kind |-> "default", p |-> <<>>, n |-> n, b |-> b] :
            n \in 1..Len(FileTrees), b \in BOOLEAN}
    \cup {[kind |-> "cors", p |-> <<>>, n |-> n, b |-> b] : n \in {1, 2}, b \in BOOLEAN}
    \cup {[kind |-> "static", p |-> <<>>, n |-> n, b |-> FALSE] : n \in 1..Len(FileTrees)}
    \cup {[kind |-> "headers", p |-> <<>>, n |-> n, b |-> b] : n \in 1..2, b \in BOOLEAN}
    \cup {[kind |-> "chain", p |-> <<>>, n |-> 0, b |-> FALSE]}
    \cup {[kind |-> "groups", p |-> <<>>, n |-> 0, b |-> FALSE]}
    \cup {[kind |-> "upgrade", p |-> <<>>, n |-> 0, b |-> FALSE]}
    \cup {[kind |-> "listen", p |-> <<>>, n |-> n, b |-> FALSE] :
            n \in 1..(Len(ListenVariants) * Len(CliPorts))}

RouteConfig(p) ==
    [add_header |-> Undefined,
     server |-> <<
        [root |-> SRV, index |-> IndexHtml, add_header |-> Undefined,
         locations |-> [i \in 1..Len(p) |->
            Location(p[i], <<Group(Undefined, <<Dir("try_files", Eq404)>>)>>)]]>>]

\* the parsed configuration file
ConfigOf(sc) ==
    CASE sc.kind = "route" -> RouteConfig(sc.p)
      [] sc.kind = "upstream" -> TestConfig
      [] sc.kind = "proxy" -> ProxyConfig(sc.n, sc.b)
      [] sc.kind = "static" -> StaticConfig
      [] sc.kind = "headers" -> HeadersConfig(sc.n = 2)
      [] sc.kind = "listen" -> ListenConfig(ListenVariantOf(sc.n))
      [] sc.kind = "chain" -> ChainConfig
      [] sc.kind = "groups" -> GroupsConfig
      [] sc.kind = "upgrade" -> UpgradeConfig
      [] OTHER -> EmptyConfig

\* the command line (src/utils.ts, parseCLIArgs, lines 171-220): "default"
\* runs take --spa from b, "cors" runs have --cors and take --spa from b,
\* "headers" runs take --cors from b, "listen" runs take the port from the
\* command line of the run, which parseInt makes a number
OptsOf(sc) ==
    [root |-> SRV,
     port |-> IF sc.kind = "listen" /\ CliPortOf(sc.n) # <<>>
              THEN Num(NumVal(CliPortOf(sc.n))) ELSE Undefined,
     spa |-> sc.kind \in {"default", "cors"} /\ sc.b,
     cors |-> sc.kind = "cors" \/ (sc.kind = "headers" /\ sc.b)]

FilesOf(sc) ==
    CASE sc.kind \in {"default", "cors", "static"} -> FileTrees[sc.n]
      [] sc.kind \in {"headers", "groups"} -> {F_index}
      [] sc.kind \in {"chain", "upgrade"} -> {F_index, F_a_txt}
      [] OTHER -> {}

-----------------------------------------------------------------------------
(* Clients *)

LocalHost == <<"localhost:23456">>
ClientAddress == <<"127.0.0.1">>
Origin1 == <<"http://cross.domain">>
Origin2 == <<"http://other.domain">>
OriginQuoted == <<"'", "http://quoted.domain", "'">>

One(name, value) == [n \in {name} |-> <<value>>]

Hdrs(h) == [n \in (DOMAIN h) \cup {H_Host} |-> IF n \in DOMAIN h THEN h[n] ELSE <<LocalHost>>]

Req(method, path, search, headers, upgrade) ==
    [method |-> method, path |-> path, search |-> search, headers |-> Hdrs(headers),
     host |-> LocalHost, proto |-> <<"http">>, client |-> ClientAddress,
     upgrade |-> upgrade]

Get(path) == Req("GET", path, <<>>, NoHeaders, FALSE)
GetFrom(path, origin) == Req("GET", path, <<>>, One(H_Origin, origin), FALSE)

PreflightHeaders(origin, acrh) ==
    [n \in {H_Origin, H_ACRequestMethod, H_ACRequestHeaders} |->
        IF n = H_Origin THEN <<origin>>
        ELSE IF n = H_ACRequestMethod THEN <<<<"POST">>>> ELSE <<acrh>>]

RequestsOf(sc) ==
    CASE sc.kind = "route" -> {Get(p) : p \in RoutePaths}
      [] sc.kind = "upstream" ->
            {Get(p) : p \in {P_upstream_index, P_upstream_123_qwe, P_upstream_123_x,
                             P_upstream_asd_123, P_upstream}}
            \cup {Req("GET", P_upstream_index, <<>>,
                      One(H_XFFor, <<"6.6.6.6">>), FALSE)}
      [] sc.kind = "proxy" ->
            {Req("GET", P_api_foo, <<"?x=1">>, NoHeaders, FALSE),
             Req("GET", P_api__foo, <<>>, One(H_XFFor, <<"6.6.6.6">>), FALSE),
             Get(P_apix),
             Req("GET", P_api_foo, <<>>, NoHeaders, TRUE)}
      [] sc.kind \in {"default", "static"} ->
            {Get(p) : p \in {P_root, P_a_txt, P_docs, P_docs_, P_spa_route,
                             P_escA_txt, P_esc_e_acute, P_dollars}}
      [] sc.kind = "cors" ->
            {Get(P_root), GetFrom(P_root, Origin1), GetFrom(P_root, Origin2),
             GetFrom(P_missing, Origin2),
             Req("OPTIONS", P_root, <<>>, PreflightHeaders(Origin1, <<"x-token">>), FALSE),
             Req("OPTIONS", P_root, <<>>, PreflightHeaders(Origin2, <<>>), FALSE)}
      [] sc.kind = "listen" -> {Get(P_root), Get(P_b)}
      [] sc.kind = "groups" ->
            {Get(P_root), Get(P_missing),
             Req("GET", P_root, <<>>, One(H_ACRequestHeaders, <<"x-token">>), FALSE)}
      [] sc.kind = "chain" ->
            {Get(P_a_txt), Get(P_missing), Get(P_esc_e_acute),
             Req("GET", P_missing, <<>>, NoHeaders, TRUE)}
      [] sc.kind = "upgrade" ->
            {Get(P_a_txt),
             Req("GET", P_a_txt, <<>>, NoHeaders, TRUE),
             Req("GET", P_missing, <<>>, NoHeaders, TRUE)}
      [] sc.kind = "headers" ->
            {Get(P_root), GetFrom(P_root, Origin1), GetFrom(P_api_foo, Origin1),
             GetFrom(P_missing, OriginQuoted),
             Req("OPTIONS", P_root, <<>>, PreflightHeaders(Origin1, <<"x-token">>), FALSE),
             Req("OPTIONS", P_root, <<>>, PreflightHeaders(OriginQuoted, <<>>), FALSE),
             Req("OPTIONS", P_root, <<>>, One(H_ACRequestMethod, <<"POST">>), FALSE),
             Req("OPTIONS", P_api_foo, <<>>, One(H_ACRequestMethod, <<"POST">>), FALSE),
             Req("OPTIONS", P_docs, <<>>, One(H_ACRequestMethod, <<"POST">>), FALSE),
             Req("OPTIONS", P_a_txt, <<>>, One(H_ACRequestMethod, <<"POST">>), FALSE),
             Req("OPTIONS", P_spa_route, <<>>, One(H_ACRequestMethod, <<"POST">>), FALSE),
             Req("OPTIONS", P_root, <<>>, NoHeaders, FALSE)}

\* what the upstream does with a forwarded request
UpstreamOutcomes ==
    {[kind |-> "response", status |-> HTTP_OK, code |-> "",
      headers |-> [n \in {<<"vary">>, <<"x-frame-options">>} |->
                      IF n = <<"vary">> THEN <<<<"Upstream">>>> ELSE <<<<"ALLOWALL">>>>]],
     [kind |-> "response", status |-> HTTP_NOT_FOUND, code |-> "",
      headers |-> One(H_ContentEncoding, <<"gzip">>)],
     [kind |-> "reject", status |-> 0, code |-> "ConnectionRefused", headers |-> NoHeaders]}

\* no WebSocket was upgraded yet.  timers are the messages held by the
\* timers of onWscOpen, in the order in which the timers are due; from_client
\* are the messages the client has sent, to_upstream and to_client those
\* passed on; polls is the parity of the number of times a timer found the
\* upstream socket not open and was armed again
NoBridge ==
    [client |-> "none", upstream |-> "none", timers |-> <<>>, from_client |-> <<>>,
     to_upstream |-> <<>>, to_client |-> <<>>, dropped |-> 0, polls |-> 0]

WsMessages == {"a", "b"}

-----------------------------------------------------------------------------
(* The state machine *)

\* run(): loadConfig, --cors, ensureServers, startServers; requests are
\* served by the first server, by none when ensureServers raised
Init ==
    \E sc \in Scenarios :
        /\ scenario = sc
        /\ global_config = [cors |-> OptsOf(sc).cors,
                            add_header |-> Array(toArray(ConfigOf(sc).add_header)),
                            loaded |-> <<>>]
        /\ server_cfg = StartedServer(ConfigOf(sc), OptsOf(sc))
        /\ files = FilesOf(sc)
        /\ pending = {}
        /\ last = [kind |-> "init"]
        /\ sockets = NoBridge

\* A request arrives: the dispatcher picks the rule and runActions runs up to
\* its first await (lines 399-417, 199-241).  The CORS additions are pushed
\* onto the rule's own add_header list; a preflight is answered at once.
Fetch(req) ==
    LET table == server_cfg.location_actions
        i == MatchIndex(table, req.path)
        added == CorsAdditions(table[i].actions.add_header, req, global_config)
        actions == [table[i].actions EXCEPT !.add_header = @ \o added]
    IN  /\ server_cfg # NotStarted
        /\ Cardinality(pending) < MaxPending
        /\ req \in RequestsOf(scenario)
        /\ IF i = 0
           THEN /\ last' = Exchange(req, NoPrefix, Immediate(Nothing), <<>>,
                                    global_config.loaded, NoUpstream)
                /\ UNCHANGED <<server_cfg, pending>>
           ELSE /\ Len(actions.add_header) <= MaxAddHeader
                /\ server_cfg' = [server_cfg EXCEPT !.location_actions[i].actions = actions]
                /\ IF IsPreflight(req)
                   THEN /\ last' = Exchange(req, table[i].prefix,
                                       Immediate(Preflight(actions, server_cfg, global_config)),
                                       actions.add_header, global_config.loaded,
                                       NoUpstream)
                        /\ UNCHANGED pending
                   ELSE /\ \A p \in pending : p.req # req
                        /\ pending' = pending \cup
                                {[req |-> req, prefix |-> table[i].prefix,
                                  started |-> global_config.loaded]}
                        /\ UNCHANGED last
        /\ UNCHANGED <<scenario, global_config, files, sockets>>

\* The upstream acts only on a request that a proxy_pass rule forwards
UpstreamsOf(p) ==
    IF \E i \in 1..Len(RuleOf(server_cfg.location_actions, p.prefix).dirs) :
            RuleOf(server_cfg.location_actions, p.prefix).dirs[i].name = "proxy_pass"
    THEN UpstreamOutcomes
    ELSE {CHOOSE up \in UpstreamOutcomes : up.kind = "reject"}

\* A suspended runActions resumes: the directives run in order and the
\* response passes through the cascade (lines 240-245), which reads the
\* rule's add_header list as it is now.
Finish(p, up) ==
    /\ p \in pending
    /\ up \in UpstreamsOf(p)
    /\ pending' = pending \ {p}
    /\ last' = Exchange(p.req, p.prefix,
                   runDirectivesWithHeaders(RuleOf(server_cfg.location_actions, p.prefix),
                                            p.req, p.prefix, server_cfg, global_config,
                                            files, up),
                   RuleOf(server_cfg.location_actions, p.prefix).add_header,
                   p.started, up)
    /\ UNCHANGED <<scenario, global_config, server_cfg, files, sockets>>

Next ==
    \/ \E req \in RequestsOf(scenario) : Fetch(req)
    \/ \E p \in pending : \E up \in UpstreamsOf(p) : Finish(p, up)

Spec == Init /\ [][Next]_vars

-----------------------------------------------------------------------------
(* The configuration watcher: run, lines 55-56, and loadConfig, lines 79-88 *)

\* line 55: the watcher is installed under a development NODE_ENV when the
\* configuration is config/main/default.conf of the working directory; these
\* are the runs of the add_header configuration without --cors
Watching(sc) == sc.kind = "headers" /\ ~sc.b

\* what the file holds when it changes: "edited" has other headers at the
\* global and the server scope and no location /api/, "single" has one
\* global add_header directive (the parser yields a string), "touched" is
\* the file as it was, "broken" is the file as it was with its global
\* add_header directives moved to an included file that cannot be read,
\* "unreadable" is a file that cannot be read at all
ReloadKinds == {"edited", "single", "touched", "broken", "unreadable"}

\* the reloads whose parser.readConfigFile(file, { parseIncludes: true })
\* raises (line 81)
FailingKinds == {"broken", "unreadable"}

\* the reloads whose second read, with ignoreIncludeErrors (line 85), raises
\* too
UnreadableKinds == {"unreadable"}

EditedConfig ==
    [add_header |-> Array(<<<<"Vary", Space, "Accept-Language">>>>),
     server |-> <<
        [root |-> SRV, index |-> IndexHtml,
         add_header |-> Single(<<"x-server", Space, "zerv2">>),
         locations |-> <<
            Location(P_root, <<Group(Undefined, <<Dir("try_files", Eq404)>>)>>)
         >>]>>]

\* parser.readConfigFile(file): the parsed file; for a file whose include
\* fails, what the read that ignores include errors yields
ReloadedConfig(sc, k) ==
    CASE k = "edited" -> EditedConfig
      [] k = "broken" -> [ConfigOf(sc) EXCEPT !.add_header = Undefined]
      [] k = "single" ->
            [ConfigOf(sc) EXCEPT !.add_header = Single(<<"X-Reloaded", Space, "yes">>)]
      [] OTHER -> ConfigOf(sc)

\* the `change` callback: Object.assign(global_config, config) replaces
\* global_config.http by the parsed file; ensureServers is not run again and
\* the servers keep the server_cfg they were started with.  When the first
\* read raises, the catch block reads the file again with
\* ignoreIncludeErrors and assigns what that read yields (lines 83-87); when
\* the second read raises too the error leaves the callback before any
\* assignment.
Reload(k) ==
    /\ Watching(scenario)
    /\ Len(global_config.loaded) < MaxReloads
    /\ global_config' = [global_config EXCEPT
                            !.add_header = IF k \in UnreadableKinds THEN @
                                           ELSE ReloadedConfig(scenario, k).add_header,
                            !.loaded = Append(@, k)]
    /\ UNCHANGED <<scenario, server_cfg, files, pending, last, sockets>>

DevInit == Init /\ Watching(scenario)

DevNext ==
    \/ Next
    \/ \E k \in ReloadKinds : Reload(k)

DevSpec == DevInit /\ [][DevNext]_vars

-----------------------------------------------------------------------------
(* The WebSocket bridge: the websocket handlers of startServer, lines        *)
(* 422-437, and onWscOpen, lines 359-365.  One bridge is followed.           *)

\* open(wss), called once server.upgrade (line 157) has succeeded: the socket
\* to the upstream is created and starts to connect
WsOpen ==
    /\ last.kind = "done" /\ last.upgraded
    /\ sockets.client = "none"
    /\ sockets' = [sockets EXCEPT !.client = "open", !.upstream = "connecting"]
    /\ UNCHANGED <<scenario, global_config, server_cfg, files, pending, last>>

\* message(wss, message): onWscOpen arms a timer that holds the message
ClientMessage(m) ==
    /\ sockets.client = "open"
    /\ Len(sockets.timers) + Len(sockets.to_upstream) < MaxMessages
    /\ sockets' = [sockets EXCEPT !.timers = Append(@, m), !.from_client = Append(@, m)]
    /\ UNCHANGED <<scenario, global_config, server_cfg, files, pending, last>>

\* the timer of onWscOpen, lines 360-364: the message is sent when the
\* upstream socket is OPEN, and the timer is armed again when it is not.
\* Every timer has the same delay, so a timer armed again is due after those
\* armed before this moment.
TimerFires ==
    /\ sockets.timers # <<>>
    /\ sockets' = IF sockets.upstream = "open"
                  THEN [sockets EXCEPT !.timers = Tail(@),
                                       !.to_upstream = Append(@, Head(sockets.timers))]
                  ELSE [sockets EXCEPT !.timers = Append(Tail(@), Head(sockets.timers)),
                                       !.polls = 1 - @]
    /\ UNCHANGED <<scenario, global_config, server_cfg, files, pending, last>>

\* the 'message' listener of the upstream socket, lines 427-429: wss.send,
\* which drops the message when the client's socket is closed
UpstreamMessage(m) ==
    /\ sockets.upstream = "open"
    /\ Len(sockets.to_client) + sockets.dropped < MaxMessages
    /\ sockets' = IF sockets.client = "open"
                  THEN [sockets EXCEPT !.to_client = Append(@, m)]
                  ELSE [sockets EXCEPT !.dropped = @ + 1]
    /\ UNCHANGED <<scenario, global_config, server_cfg, files, pending, last>>

\* the client closes its socket; the websocket object of lines 422-437 has no
\* close handler, so no code runs
ClientCloses ==
    /\ sockets.client = "open"
    /\ sockets' = [sockets EXCEPT !.client = "closed"]
    /\ UNCHANGED <<scenario, global_config, server_cfg, files, pending, last>>

\* the connection to the upstream is established
UpstreamOpens ==
    /\ sockets.upstream = "connecting"
    /\ sockets' = [sockets EXCEPT !.upstream = "open"]
    /\ UNCHANGED <<scenario, global_config, server_cfg, files, pending, last>>

\* the upstream closes its socket or refuses the connection; the upstream
\* socket has a 'message' listener only (line 427), so no code runs
UpstreamCloses ==
    /\ sockets.upstream \in {"connecting", "open"}
    /\ sockets' = [sockets EXCEPT !.upstream = "closed"]
    /\ UNCHANGED <<scenario, global_config, server_cfg, files, pending, last>>

\* the runs of the first proxy configuration, whose clients ask for an
\* upgrade
BridgeInit == Init /\ scenario = [kind |-> "proxy", p |-> <<>>, n |-> 1, b |-> FALSE]

BridgeNext ==
    \/ \E req \in RequestsOf(scenario) : req.upgrade /\ Fetch(req)
    \/ \E p \in pending : \E up \in UpstreamsOf(p) : Finish(p, up)
    \/ WsOpen
    \/ \E m \in WsMessages : ClientMessage(m)
    \/ TimerFires
    \/ \E m \in WsMessages : UpstreamMessage(m)
    \/ ClientCloses
    \/ UpstreamOpens
    \/ UpstreamCloses

\* The event loop runs every callback that is due: a suspended handler, the
\* open handler, a timer.  What the two peers do is up to them.
BridgeSpec ==
    /\ BridgeInit
    /\ [][BridgeNext]_vars
    /\ WF_vars(\E p \in pending : \E up \in UpstreamsOf(p) : Finish(p, up))
    /\ WF_vars(WsOpen)
    /\ WF_vars(TimerFires)

\* The same, with a connection to the upstream that does not stay in
\* CONNECTING for ever: it is established or it fails
PollSpec ==
    /\ BridgeSpec
    /\ WF_vars(UpstreamOpens \/ UpstreamCloses)

-----------------------------------------------------------------------------
(* Vocabulary of the properties *)

Table == server_cfg.location_actions

ConfiguredPrefixes == {Table[i].prefix : i \in 1..Len(Table)}

\* the configured prefixes that are a literal string-prefix of the path
Matching(path) == {q \in ConfiguredPrefixes : StartsWith(path, q)}

IsLongestMatch(prefix, path) ==
    /\ prefix \in Matching(path)
    /\ \A q \in Matching(path) : Len(q) <= Len(prefix)

Done == last.kind = "done"

Responded == Done /\ last.out.kind = "response"

DirectiveNames(prefix) ==
    {RuleOf(Table, prefix).dirs[i].name : i \in 1..Len(RuleOf(Table, prefix).dirs)}

\* the location prefixes in the order the configuration declares them
Declared ==
    IF ConfigOf(scenario).server = <<>> THEN <<P_root>>
    ELSE [i \in 1..Len(ConfigOf(scenario).server[1].locations) |->
            ConfigOf(scenario).server[1].locations[i].prefix]

DeclaredIndex(q) == CHOOSE i \in 1..Len(Declared) : Declared[i] = q

\* The percent-decoding of a whole path: an escape below 0x80 is its ASCII
\* character, the escapes %C3%A9 together are the one character U+00E9
RECURSIVE PercentDecoded(_)
PercentDecoded(s) ==
    IF s = <<>> THEN <<>>
    ELSE IF StartsWith(s, <<"%", "C", "3", "%", "A", "9">>)
    THEN <<EAcute>> \o PercentDecoded(Slice(s, 6))
    ELSE IF IsEscapeAt(s, 1) /\ ~DecodeEscapeThrows(s[2], s[3])
    THEN <<DecodeEscape(s[2], s[3])>> \o PercentDecoded(Slice(s, 3))
    ELSE <<s[1]>> \o PercentDecoded(Tail(s))

\* the file root + decoded path
FileAt(path) == CollapseSlashes(server_cfg.root \o PercentDecoded(path))

\* the index files that exist in the directory the path names, by position
\* in the server's index list
IndexesAt(path) ==
    {k \in 1..Len(server_cfg.index) :
        Exists(FileAt(path) \o <<"/">> \o server_cfg.index[k], files)}

FirstIndexAt(path) == CHOOSE k \in IndexesAt(path) : \A j \in IndexesAt(path) : k <= j

\* the values, in order, of the entries of a list that name a header
RECURSIVE ValuesFor(_, _)
ValuesFor(entries, name) ==
    IF entries = <<>> THEN <<>>
    ELSE (IF parseHeader(Head(entries)).name = name
          THEN <<Trim(parseHeader(Head(entries)).value)>> ELSE <<>>)
         \o ValuesFor(Tail(entries), name)

NamesOf(entries) == {parseHeader(entries[i]).name : i \in 1..Len(entries)}

IsSuffix(t, s) == Len(t) <= Len(s) /\ SubSeq(s, Len(s) - Len(t) + 1, Len(s)) = t

\* global, then server, then the location scope the cascade was given
AppliedEntries == toArray(global_config.add_header) \o server_cfg.add_header \o last.scope

-----------------------------------------------------------------------------
(* C1 *)

-----------------------------------------------------------------------------
(* C2 *)

\* C2: after setupLocationActions the location table is ordered by descending
\* prefix length, and two prefixes of equal length keep their declaration
\* order, for every set of configured location prefixes.
C2_TableSortedByLengthStable ==
    \A i, j \in 1..Len(Table) :
        i < j => \/ Len(Table[i].prefix) > Len(Table[j].prefix)
                 \/ /\ Len(Table[i].prefix) = Len(Table[j].prefix)
                    /\ DeclaredIndex(Table[i].prefix) < DeclaredIndex(Table[j].prefix)

\* C2, the part the code keeps: the same ordering among the prefixes that are
\* not canonical array-index keys (every prefix that starts with "/")
C2_SortedAmongPathPrefixes ==
    \A i, j \in 1..Len(Table) :
        (i < j /\ ~IsArrayIndex(Table[i].prefix) /\ ~IsArrayIndex(Table[j].prefix)) =>
            \/ Len(Table[i].prefix) > Len(Table[j].prefix)
            \/ /\ Len(Table[i].prefix) = Len(Table[j].prefix)
               /\ DeclaredIndex(Table[i].prefix) < DeclaredIndex(Table[j].prefix)

-----------------------------------------------------------------------------
(* C3 *)

-----------------------------------------------------------------------------
(* C4, C5 *)

UriOr404Run ==
    \/ scenario.kind = "static"
    \/ scenario.kind = "default" /\ ~OptsOf(scenario).spa

\* C4: try_files with argument `$uri $uri/ =404`: for every request path, if
\* a file exists at root + decoded path the result is 200 with that file;
\* else if the path names a directory holding one of the configured index
\* files the result is 200 with the first existing index file in index
\* order; else the result is 404 with an empty body.
C4_TryFilesUriDirOr404 ==
    (UriOr404Run /\ Done) =>
        IF Exists(FileAt(last.req.path), files)
        THEN last.out = Response(HTTP_OK, FileBody(FileAt(last.req.path)), NoHeaders)
        ELSE IF IndexesAt(last.req.path) # {}
        THEN last.out = Response(HTTP_OK,
                            FileBody(CollapseSlashes(FileAt(last.req.path) \o <<"/">>
                                \o server_cfg.index[FirstIndexAt(last.req.path)])),
                            NoHeaders)
        ELSE last.out = Response(HTTP_NOT_FOUND, EmptyBody, NoHeaders)

\* C4, the part the code keeps: the same for the paths whose escapes are all
\* below 0x80 and that hold no "$"
C4_HoldsForAsciiEscapes ==
    (UriOr404Run /\ Done /\ DecodeEscapes(last.req.path).ok
        /\ \A k \in 1..Len(last.req.path) : last.req.path[k] # "$") =>
        C4_TryFilesUriDirOr404

\* C5: in SPA mode (default server started with --spa, root containing
\* index.html) a request for any path for which neither a file nor a
\* directory index exists returns 200 with the content of root/index.html,
\* never 404 and never no response.
C5_SpaFallsBackToIndex ==
    (scenario.kind = "default" /\ OptsOf(scenario).spa /\ F_index \in files /\ Done
        /\ ~Exists(FileAt(last.req.path), files)
        /\ IndexesAt(last.req.path) = {}) =>
        last.out = Response(HTTP_OK, FileBody(F_index), NoHeaders)

\* C5, the part the code keeps: the same for the paths whose escapes are all
\* below 0x80 and that hold no "$"
C5_HoldsForAsciiEscapes ==
    (Done /\ DecodeEscapes(last.req.path).ok
        /\ \A k \in 1..Len(last.req.path) : last.req.path[k] # "$") =>
        C5_SpaFallsBackToIndex

-----------------------------------------------------------------------------
(* C6, C7 *)

Forwarded == Done /\ last.upstream # <<>>

ProxyTarget == Lookup(RuleOf(Table, last.prefix).dirs, "proxy_pass")

\* C6: proxy_pass computes the upstream URL as upstream base path + P +
\* query, where P is the request path with the matched prefix removed when
\* the proxy_pass argument ends in "/" and the matched prefix ends in "/" (or
\* there is no prefix), and the full request path otherwise; runs of slashes
\* produced by the concatenation are collapsed to one and the query string is
\* kept verbatim.  With target http://upstream/ the request /api/foo?x=1 goes
\* to http://upstream/foo?x=1 under prefix /api/ and to
\* http://upstream/api/foo?x=1 under prefix /api.
C6_UpstreamUrl ==
    Forwarded =>
        LET url == last.upstream[1].url
            path == last.req.path
            removed == /\ ProxyTarget[Len(ProxyTarget)] = "/"
                       /\ (last.prefix = <<>> \/ last.prefix[Len(last.prefix)] = "/")
            P == IF removed THEN SubSeq(path, Len(last.prefix) + 1, Len(path)) ELSE path
        IN  /\ Len(last.upstream) = 1
            /\ url.origin = ProxyTarget[1]
            /\ url.pathname = CollapseSlashes(BasePathname(ProxyTarget) \o P)
            /\ url.search = last.req.search
            /\ (ProxyTarget = <<"http://upstream", "/">> /\ path = P_api_foo
                    /\ last.req.search = <<"?x=1">>) =>
                    url = [origin |-> "http://upstream",
                           pathname |-> IF last.prefix = P_api_ THEN <<"/", "f", "o", "o">>
                                        ELSE P_api_foo,
                           search |-> <<"?x=1">>]

C6_Witness ==
    /\ Forwarded
    /\ ProxyTarget = <<"http://upstream", "/">>
    /\ last.prefix = P_api_
    /\ last.req.path = P_api_foo /\ last.req.search = <<"?x=1">>
    /\ last.upstream[1].url.pathname = <<"/", "f", "o", "o">>
    /\ last.upstream[1].url.search = <<"?x=1">>

ProxySetHeader == toArray(Lookup(RuleOf(Table, last.prefix).dirs, "proxy_set_header"))

\* C7: every non-upgrade request forwarded by proxy_pass reaches the upstream
\* without the client's Host header and with X-Forwarded-Host = the request's
\* host, X-Forwarded-For = the client socket address (replacing any
\* X-Forwarded-For sent by the client), X-Forwarded-Proto = the request
\* scheme and X-Forwarded-Prefix = the matched prefix; each proxy_set_header
\* entry of the rule is applied after these and overwrites the header of the
\* same name.
C7_ForwardingHeaders ==
    Forwarded =>
        LET h == last.upstream[1].headers
            req == last.req
            set(n) == ValuesFor(ProxySetHeader, n)
            is(n, v) == HeadersHas(h, n) /\ h[n] = <<v>>
        IN  /\ ~req.upgrade
            /\ \A n \in NamesOf(ProxySetHeader) : is(n, set(n)[Len(set(n))])
            /\ H_Host \notin NamesOf(ProxySetHeader) => ~HeadersHas(h, H_Host)
            /\ H_XFHost \notin NamesOf(ProxySetHeader) => is(H_XFHost, req.host)
            /\ H_XFFor \notin NamesOf(ProxySetHeader) => is(H_XFFor, req.client)
            /\ H_XFProto \notin NamesOf(ProxySetHeader) => is(H_XFProto, req.proto)
            /\ H_XFPrefix \notin NamesOf(ProxySetHeader) => is(H_XFPrefix, last.prefix)

\* the client sent its own X-Forwarded-For and a Host; the upstream saw the
\* socket address and no Host
C7_Witness ==
    /\ Forwarded
    /\ ProxySetHeader = <<>>
    /\ HeadersHas(last.req.headers, H_Host)
    /\ HeadersHas(last.req.headers, H_XFFor)
    /\ last.req.headers[H_XFFor] = << <<"6.6.6.6">> >>
    /\ last.upstream[1].headers[H_XFFor] = <<ClientAddress>>
    /\ ~HeadersHas(last.upstream[1].headers, H_Host)

\* a proxy_set_header entry overwrote X-Forwarded-For, and the later of two
\* entries for X-My-Header won
C7_WitnessSetHeader ==
    /\ Forwarded
    /\ Len(ProxySetHeader) = 4
    /\ last.upstream[1].headers[H_XFFor] = << <<"10.0.0.1">> >>
    /\ last.upstream[1].headers[H_Host] = << <<"$host">> >>
    /\ last.upstream[1].headers[<<"x-my-header">>] = << <<"last">> >>

-----------------------------------------------------------------------------
(* C8 *)

\* C8: every response produced by a directive passes through the header
\* cascade once, applying global, then server, then location add_header
\* entries in that order: for a multi-value header name the values configured
\* at all three scopes are all present on the final response, in scope order
\* after any value the response already had, so a location-scope entry never
\* drops a global-scope entry; for any other name the final value is that of
\* the last applied scope naming it.
C8_HeaderCascade ==
    (Responded /\ last.handlers # <<>>) =>
        \A n \in NamesOf(AppliedEntries) :
            /\ HeadersHas(last.out.headers, n)
            /\ IF n \in multi_value_headers
               THEN IsSuffix(ValuesFor(AppliedEntries, n), last.out.headers[n])
               ELSE last.out.headers[n] =
                        <<ValuesFor(AppliedEntries, n)[Len(ValuesFor(AppliedEntries, n))]>>

\* Vary is configured at the three scopes and X-Frame-Options at the global
\* and the location scope
C8_Witness ==
    /\ scenario.kind = "headers" /\ Responded
    /\ last.handlers = <<"try_files">>
    /\ last.out.headers[<<"vary">>] =
            << <<"Accept-Encoding">>, <<"Origin">>, <<"Accept">> >>
    /\ last.out.headers[<<"x-frame-options">>] = << <<"SAMEORIGIN">> >>
    /\ last.out.headers[<<"cache-control">>] = << <<"no-cache">> >>

\* the upstream's own Vary is kept before the configured ones, its
\* X-Frame-Options is replaced
C8_WitnessUpstream ==
    /\ scenario.kind = "headers" /\ Responded
    /\ last.handlers = <<"proxy_pass">>
    /\ last.out.headers[<<"vary">>] =
            << <<"Upstream">>, <<"Accept-Encoding">>, <<"Origin">> >>
    /\ last.out.headers[<<"x-frame-options">>] = << <<"DENY">> >>

-----------------------------------------------------------------------------
(* C9, C10 *)

\* C9: with CORS enabled, a preflight request (method OPTIONS with
\* Access-Control-Request-Method present and an Origin header) against a rule
\* with no OPTIONS directive group returns status 200 with no body, carrying
\* Access-Control-Allow-Origin equal to the request's Origin plus synthesized
\* Access-Control-Allow-Headers and Access-Control-Allow-Methods; no directive
\* handler is executed for it.
C9_PreflightWithoutOptionsGroup ==
    (Done /\ global_config.cors /\ IsPreflight(last.req)
        /\ HeadersHas(last.req.headers, H_Origin)
        /\ last.prefix # NoPrefix
        /\ Lookup(RuleOf(Table, last.prefix).dirs, OptionsKey) = Undefined) =>
        /\ last.out.kind = "response"
        /\ last.out.status = HTTP_OK
        /\ last.out.body = EmptyBody
        /\ HeadersHas(last.out.headers, H_ACAllowOrigin)
        /\ last.out.headers[H_ACAllowOrigin] = <<HeaderValue(last.req.headers, H_Origin)>>
        /\ HeadersHas(last.out.headers, H_ACAllowHeaders)
        /\ HeadersHas(last.out.headers, H_ACAllowMethods)
        /\ last.handlers = <<>>

\* C9, the part the code keeps: the same for an Origin that neither begins
\* nor ends with a quote
C9_HoldsForUnquotedOrigin ==
    (Done /\ HeadersHas(last.req.headers, H_Origin)
        /\ StripQuotes(HeaderValue(last.req.headers, H_Origin))
                = HeaderValue(last.req.headers, H_Origin)) =>
        C9_PreflightWithoutOptionsGroup

\* C10: with CORS mode enabled, after any sequence of earlier requests (with
\* any Origin values) to the same location, the response to a request
\* carrying Origin O has access-control-allow-origin exactly equal to O.
\* Stated for the default server started with --cors, whose clients send
\* origins that hold no quote.
C10_AllowOriginIsRequestOrigin ==
    (scenario.kind = "cors" /\ Responded /\ HeadersHas(last.req.headers, H_Origin)) =>
        /\ HeadersHas(last.out.headers, H_ACAllowOrigin)
        /\ last.out.headers[H_ACAllowOrigin] = <<HeaderValue(last.req.headers, H_Origin)>>

-----------------------------------------------------------------------------
(* C11 *)

\* the server the builder produced at startup from the configuration
BuiltServer == StartedServer(ConfigOf(scenario), OptsOf(scenario))

\* C11: handling a request never mutates a ServerDefinition or a
\* LocationRule: after startup, whatever requests were served (requests with
\* an Origin under CORS mode included), every rule's directive list and
\* add_header list equal what the builder produced, and no list has grown.
C11_RulesNeverMutated ==
    /\ server_cfg = BuiltServer
    /\ \A i \in 1..Len(Table) :
        /\ Table[i].actions.dirs = BuiltServer.location_actions[i].actions.dirs
        /\ Table[i].actions.add_header = BuiltServer.location_actions[i].actions.add_header

\* C11, the part the code keeps: the prefixes, their order and every
\* directive list stay as built, and an add_header list only ever gains
\* entries at its end
C11_OnlyAddHeaderGrows ==
    /\ Len(Table) = Len(BuiltServer.location_actions)
    /\ \A i \in 1..Len(Table) :
        /\ Table[i].prefix = BuiltServer.location_actions[i].prefix
        /\ Table[i].actions.dirs = BuiltServer.location_actions[i].actions.dirs
        /\ Len(BuiltServer.location_actions[i].actions.add_header)
                <= Len(Table[i].actions.add_header)
        /\ SubSeq(Table[i].actions.add_header, 1,
                  Len(BuiltServer.location_actions[i].actions.add_header))
                = BuiltServer.location_actions[i].actions.add_header

-----------------------------------------------------------------------------
(* C12, C13 *)

\* the configuration in effect after the loads of a history: that of the
\* last load that did not fail
RECURSIVE ConfigAt(_)
ConfigAt(loaded) ==
    IF loaded = <<>> THEN ConfigOf(scenario)
    ELSE IF loaded[Len(loaded)] \in FailingKinds
    THEN ConfigAt(SubSeq(loaded, 1, Len(loaded) - 1))
    ELSE ReloadedConfig(scenario, loaded[Len(loaded)])

\* The rule and the answer that a server configured wholly by one
\* configuration gives to a request: location table, server-scope and
\* global-scope headers all of that configuration
AnswerUnder(loaded, req, up) ==
    LET config == ConfigAt(loaded)
        cfg == FirstServer(config, OptsOf(scenario))
        glob == [cors |-> global_config.cors,
                 add_header |-> Array(toArray(config.add_header)),
                 loaded |-> loaded]
        i == MatchIndex(cfg.location_actions, req.path)
        rule == cfg.location_actions[i]
    IN  IF i = 0 THEN [prefix |-> NoPrefix, out |-> Nothing]
        ELSE IF IsPreflight(req)
        THEN [prefix |-> rule.prefix, out |-> Preflight(rule.actions, cfg, glob)]
        ELSE [prefix |-> rule.prefix,
              out |-> runDirectivesWithHeaders(rule.actions, req, rule.prefix, cfg, glob,
                                               files, up).out]

Answer == [prefix |-> last.prefix, out |-> last.out]

\* C12: a reload is atomic with respect to requests: a request in flight
\* while the configuration is reloaded completes using only the values of the
\* configuration in effect when it started (location table, server-scope and
\* global-scope headers of the same load).
C12_InFlightKeepsItsConfiguration ==
    (Done /\ last.started # last.finished) =>
        Answer = AnswerUnder(last.started, last.req, last.up)

\* C12, the part the code keeps: the rule chosen for a request in flight is
\* the rule of the configuration it started under at startup
C12_InFlightKeepsItsRule ==
    (Done /\ last.started = <<>>) =>
        last.prefix = AnswerUnder(<<>>, last.req, last.up).prefix

\* C13: after a reload has completed, every request that starts afterwards
\* is routed and answered according to the new configuration (its location
\* table and its header lists).
C13_AfterReloadNewConfiguration ==
    (Done /\ last.started # <<>> /\ last.started = last.finished) =>
        Answer = AnswerUnder(last.started, last.req, last.up)

\* C13, what the code does instead: every request, whenever it starts, is
\* routed by the location table built at startup
C13_AlwaysRoutedByStartupTable ==
    Done => last.prefix = AnswerUnder(<<>>, last.req, last.up).prefix

-----------------------------------------------------------------------------
(* C14 *)

\* C14: on the WebSocket bridge, closing either side eventually closes the
\* other: once the client's socket is closed the upstream socket is
\* eventually closed, and once the upstream socket is closed the client's
\* socket is eventually closed, so neither side stays open forever.
C14_CloseEitherClosesOther ==
    /\ (sockets.client = "closed") ~> (sockets.upstream = "closed")
    /\ (sockets.upstream = "closed") ~> (sockets.client = "closed")

\* C14, what the code does instead: no handler closes a socket; a socket
\* closes only when its own peer closes it
C14_OnlyPeersClose ==
    [][/\ (sockets'.client = "closed" /\ sockets.client # "closed") =>
            (sockets.client = "open" /\ sockets'.upstream = sockets.upstream)
       /\ (sockets'.upstream = "closed" /\ sockets.upstream # "closed") =>
            (sockets.upstream \in {"connecting", "open"}
                /\ sockets'.client = sockets.client)]_vars

-----------------------------------------------------------------------------
(* C15 *)

\* lines 472-479: the labeled 500 response for an error e; the body is
\* `<code>: <message>\nRequest ID: <req_id>`.  No line of the program calls
\* it.
errorResponse(e) ==
    Response(HTTP_SERVER_ERROR,
             [kind |-> "error",
              code |-> IF e.code = "" THEN "ServerError" ELSE e.code,
              message |-> IF e.code = "ConnectionRefused"
                          THEN "Unable to connect to upstream server" ELSE e.message],
             NoHeaders)

\* the request was forwarded and the upstream could not be reached
UpstreamUnreachable == Done /\ last.upstream # <<>> /\ last.up.kind = "reject"

\* C15: when the upstream is unreachable the client gets a 500 response whose
\* body is `<code>: <message>\nRequest ID: <req_id>`; the failure never
\* leaves the fetch handler as a rejected promise.
C15_UnreachableUpstreamGets500 ==
    UpstreamUnreachable =>
        /\ last.out.kind = "response"
        /\ last.out.status = HTTP_SERVER_ERROR
        /\ last.out.body = errorResponse([code |-> last.up.code, message |-> ""]).body

\* C15, what the code does instead: the rejection of fetch() is the result
\* of the handler
C15_RejectionPropagates ==
    UpstreamUnreachable => last.out = Throw(last.up.code)

-----------------------------------------------------------------------------
(* C16 *)

\* no configured prefix is a string-prefix of the request path
NoRouteMatched == Done /\ Matching(last.req.path) = {}

\* C16: when no prefix matches the request path a warning is logged, no
\* handler is run and the fetch handler returns no HTTP response (no 404 is
\* made up).
C16_NoRouteWarnsAndReturnsNothing ==
    NoRouteMatched =>
        /\ "warn" \in {last.log[i] : i \in 1..Len(last.log)}
        /\ last.handlers = <<>>
        /\ last.upstream = <<>>
        /\ last.out = Nothing

\* C16, the part the code keeps: no handler is run, nothing is sent upstream
\* and the fetch handler returns undefined; nothing is logged beyond the
\* access line
C16_NoRouteReturnsNothing ==
    NoRouteMatched =>
        /\ last.prefix = NoPrefix
        /\ last.log = <<>>
        /\ last.handlers = <<>>
        /\ last.upstream = <<>>
        /\ last.out = Nothing

-----------------------------------------------------------------------------
(* C17, C18 *)

\* global_config.http.server after ensureServers: the groups of servers
\* that are started, none when ensureServers raised
Servers ==
    IF ensureServersThrows(ConfigOf(scenario)) THEN <<>>
    ELSE ensureServers(ConfigOf(scenario), OptsOf(scenario))

Blocks == ConfigOf(scenario).server

DefaultTryFiles ==
    TryDefault \o (IF OptsOf(scenario).spa THEN SlashIndexHtml ELSE Eq404)

\* C17: when the configuration has no server block, exactly one default
\* server is made: index [index.html] and the single location `/` with
\* try_files `$uri $uri/ =404`, or `$uri $uri/ /index.html` in SPA mode.
\* When at least one server block is present no default server is made:
\* every server started is one of the blocks.
C17_DefaultServerOnlyWithoutBlocks ==
    /\ Blocks = <<>> =>
        /\ Len(Servers) = 1 /\ Len(Servers[1]) = 1
        /\ Servers[1][1].index = <<IndexHtml>>
        /\ Servers[1][1].location_actions =
                <<[prefix |-> P_root,
                   actions |-> [add_header |-> <<>>,
                                dirs |-> <<Dir("try_files", DefaultTryFiles)>>]]>>
        /\ server_cfg.index = <<IndexHtml>>
        /\ ConfiguredPrefixes = {P_root}
        /\ RuleOf(Table, P_root).dirs = <<Dir("try_files", DefaultTryFiles)>>
    /\ Blocks # <<>> =>
        \A g \in 1..Len(Servers) : \A j \in 1..Len(Servers[g]) :
            \E i \in 1..Len(Blocks) :
                Servers[g][j] = NormalizeServer(Blocks[i], OptsOf(scenario))

\* the default server answered a route of a single-page application with
\* index.html
C17_Witness ==
    /\ Blocks = <<>>
    /\ OptsOf(scenario).spa
    /\ Responded
    /\ last.req.path = P_spa_route
    /\ last.out.status = HTTP_OK

\* a server of a configuration with two blocks answered
C17_WitnessBlocks == Len(Blocks) = 2 /\ Responded

\* the groups that hold the server made from block i
GroupsOf(i) ==
    {g \in 1..Len(Servers) :
        \E j \in 1..Len(Servers[g]) :
            Servers[g][j] = NormalizeServer(Blocks[i], OptsOf(scenario))}

\* the port of a listen directive `[host:]port [flags]`, as a number
ListenPortOf(listen_cfg) == NumVal(TrailingDigits(Head(Split(listen_cfg, " "))))

\* the ports block i may resolve to: the CLI port when one was given, else
\* the port of a listen directive of the block, else 443 with a TLS marker
\* and 80 without
ExpectedPorts(i) ==
    LET listens == toArray(Prop(Blocks[i], "listen"))
    IN  IF OptsOf(scenario).port # Undefined THEN {OptsOf(scenario).port.n}
        ELSE IF listens # <<>> THEN {ListenPortOf(listens[k]) : k \in 1..Len(listens)}
        ELSE IF Prop(Blocks[i], "ssl") # Undefined
                \/ Prop(Blocks[i], "ssl_certificate") # Undefined
        THEN {HTTPS_PORT}
        ELSE {HTTP_PORT}

PortsResolved ==
    /\ \A i \in 1..Len(Blocks) :
        /\ Cardinality(GroupsOf(i)) = 1
        /\ \A g \in GroupsOf(i) : \A j \in 1..Len(Servers[g]) :
            PortKey(Servers[g][j].port) \in {NumToStr(n) : n \in ExpectedPorts(i)}
    /\ \A g, h \in 1..Len(Servers) :
        g # h => PortKey(Servers[g][1].port) # PortKey(Servers[h][1].port)

\* C18: a server block uses the CLI port if one was given (any value, 0
\* included); else the port of a listen directive (`[host:]port`, a bare
\* integer being a port); else 443 when the block has a TLS marker and 80
\* when it has none.  Every block ends in exactly one group, keyed by its
\* resolved port.
C18_PortResolution == Blocks # <<>> => PortsResolved

\* C18, the part the code keeps: the same for a command line that gives no
\* port or a port other than 0, when every listen directive ends in a port
C18_HoldsUnlessCliPortZero ==
    (Blocks # <<>> /\ OptsOf(scenario).port # Num(0)
        /\ ~ensureServersThrows(ConfigOf(scenario))) => PortsResolved

-----------------------------------------------------------------------------
(* C19 *)

\* the request went through the directive loop of its rule
RanDirectives == Done /\ last.prefix # NoPrefix /\ ~IsPreflight(last.req)

\* the directives of the rule that have a handler, in declaration order
HandlerDirs ==
    LET HasHandler(d) == d.name \in HandlerNames
    IN  SelectSeq(RuleOf(Table, last.prefix).dirs, HasHandler)

\* what the handler of a directive gives for the request of the exchange
ResultOf(d) ==
    CASE d.name = "try_files" -> try_files(d.arg, last.req, server_cfg, files)
      [] d.name = "proxy_pass" ->
            proxy_pass(d.arg, RuleOf(Table, last.prefix), last.req, last.prefix, last.up).out
      [] OTHER -> Nothing

\* a result with a status of 200 or more
IsFinal(r) == r.kind = "response" /\ r.status >= 200

Raises(r) == r.kind = "throw"

\* C19: runActions runs the directives of a rule in declaration order and
\* stops at the first handler whose result has a status >= 200; that
\* response goes through the header cascade and is the answer, and no later
\* handler is invoked.  A directive without a handler, or whose handler
\* returns nothing (proxy_http_version, proxy_cache_bypass, add_header, an
\* unknown directive), never stops the loop and never raises.
C19_DirectivesInOrderUntilFirstResponse ==
    RanDirectives =>
        LET k == Len(last.handlers)
        IN  /\ k <= Len(HandlerDirs)
            /\ \A j \in 1..k : last.handlers[j] = HandlerDirs[j].name
            /\ \A j \in 1..(k - 1) :
                ~IsFinal(ResultOf(HandlerDirs[j])) /\ ~Raises(ResultOf(HandlerDirs[j]))
            /\ k < Len(HandlerDirs) =>
                k >= 1 /\ (IsFinal(ResultOf(HandlerDirs[k])) \/ Raises(ResultOf(HandlerDirs[k])))
            /\ last.out.kind = "response" =>
                /\ k >= 1
                /\ IsFinal(ResultOf(HandlerDirs[k]))
                /\ last.out.status = ResultOf(HandlerDirs[k]).status
                /\ last.out.body = ResultOf(HandlerDirs[k]).body
                /\ \A n \in NamesOf(last.scope) : HeadersHas(last.out.headers, n)
            /\ \A j \in 1..k :
                HandlerDirs[j].name \in {"proxy_http_version", "proxy_cache_bypass"} =>
                    ResultOf(HandlerDirs[j]) = Nothing
            /\ (k = Len(HandlerDirs) /\ last.out.kind = "undefined") =>
                \A j \in 1..k : ~IsFinal(ResultOf(HandlerDirs[j]))

\* try_files answered between two handlers that do nothing, and proxy_pass,
\* declared after it, was not invoked
C19_Witness ==
    /\ scenario.kind = "chain"
    /\ Responded
    /\ last.req.path = P_a_txt
    /\ last.handlers = <<"proxy_http_version", "try_files">>
    /\ last.upstream = <<>>
    /\ HeadersHas(last.out.headers, <<"x-chain">>)

\* try_files found nothing, the loop went on through proxy_cache_bypass and
\* proxy_pass answered
C19_WitnessLater ==
    /\ scenario.kind = "chain"
    /\ Responded
    /\ last.req.path = P_missing
    /\ last.handlers = <<"proxy_http_version", "try_files", "proxy_cache_bypass", "proxy_pass">>
    /\ Len(last.upstream) = 1

-----------------------------------------------------------------------------
(* C20 *)

\* the OPTIONS group of the rule that held the request, undefined when the
\* rule has none
OptionsGroup == Lookup(RuleOf(Table, last.prefix).dirs, OptionsKey)

\* the code of a `return` directive: its leading integer; 204 when the
\* directive is absent or does not start with an integer
ReturnCodeOr204(value) ==
    IF value.t = "string" /\ value.s # <<>> /\ value.s[1] \in Digits
    THEN NumVal(LeadingDigits(value.s))
    ELSE 204

\* the preflight request was answered by the OPTIONS group of its rule: the
\* group's return code, the group's headers, and no directive run
AnsweredByOptionsGroup ==
    /\ last.out.kind = "response"
    /\ last.out.status = ReturnCodeOr204(OptionsGroup.return)
    /\ last.out.body = EmptyBody
    /\ \A n \in NamesOf(toArray(OptionsGroup.add_header)) : HeadersHas(last.out.headers, n)
    /\ last.handlers = <<>>
    /\ last.upstream = <<>>

AnsweredBare200 ==
    /\ last.out.kind = "response"
    /\ last.out.status = 200
    /\ last.out.body = EmptyBody
    /\ last.handlers = <<>>
    /\ last.upstream = <<>>

PreflightPath ==
    /\ (Done /\ last.prefix # NoPrefix /\ IsPreflight(last.req)) =>
        IF OptionsGroup # Undefined THEN AnsweredByOptionsGroup ELSE AnsweredBare200
    /\ (Done /\ last.prefix # NoPrefix /\ ~IsPreflight(last.req)) =>
        (HandlerDirs # <<>> => last.handlers # <<>>)

\* C20: an OPTIONS request with Access-Control-Request-Method to a rule that
\* has an `if ($request_method = 'OPTIONS')` group is answered at once with
\* the group's return code (204 when absent or unparsable) and with the
\* headers applied, and no directive is executed; every other preflight
\* request gets a bare 200; a request that is not a preflight never takes
\* this path.
C20_PreflightShortCircuit == PreflightPath

\* C20, the part the code keeps: the same unless the OPTIONS group has
\* exactly one add_header directive
C20_HoldsUnlessSingleGroupHeader ==
    (Done /\ last.prefix # NoPrefix /\ IsPreflight(last.req)
        /\ OptionsGroup # Undefined /\ OptionsGroup.add_header.t = "string")
    \/ PreflightPath

-----------------------------------------------------------------------------
(* C21 *)

\* the try_files directive of the rule that held the request
TryFilesArg == Lookup(RuleOf(Table, last.prefix).dirs, "try_files")

\* the candidates tried before the literal `=404` entry, all of them when
\* the argument has none
RECURSIVE Before404(_)
Before404(entries) ==
    IF entries = <<>> \/ Head(entries) = Eq404 THEN <<>>
    ELSE <<Head(entries)>> \o Before404(Tail(entries))

Reached == Before404(Split(TryFilesArg, Space))

Reaches404 == Len(Reached) < Len(Split(TryFilesArg, Space))

\* the path a candidate names: `$uri` stands for the request path
Candidate(entry, path) ==
    IF StartsWith(entry, DollarUri) THEN path \o Slice(entry, Len(DollarUri)) ELSE entry

\* a candidate resolves when the file it names exists under the root or,
\* for a candidate that ends in "/", when one of the index files exists in
\* the directory it names
Resolves(entry, path) ==
    LET at == server_cfg.root \o PercentDecoded(Candidate(entry, path))
    IN  IF EndsWith(entry, <<"/">>)
        THEN \E k \in 1..Len(server_cfg.index) : Exists(at \o server_cfg.index[k], files)
        ELSE Exists(at, files)

NoCandidateResolves == \A k \in 1..Len(Reached) : ~Resolves(Reached[k], last.req.path)

TryFilesInvoked ==
    /\ RanDirectives
    /\ \E j \in 1..Len(last.handlers) : last.handlers[j] = "try_files"

TryFilesWasLast == last.handlers[Len(last.handlers)] = "try_files"

\* the handler directives of the rule declared after try_files
LaterHandlers ==
    LET at == CHOOSE j \in 1..Len(HandlerDirs) : HandlerDirs[j].name = "try_files"
    IN  SubSeq(HandlerDirs, at + 1, Len(HandlerDirs))

TryFilesFallsThrough ==
    /\ (TryFilesInvoked /\ NoCandidateResolves /\ ~Reaches404) =>
        /\ LaterHandlers # <<>> => ~TryFilesWasLast
        /\ LaterHandlers = <<>> => last.out = Nothing
        /\ TryFilesWasLast => last.out = Nothing
        /\ (last.out.kind = "response" /\ last.out.status = HTTP_NOT_FOUND) =>
                (last.up.kind = "response" /\ last.up.status = HTTP_NOT_FOUND)
    /\ (TryFilesInvoked /\ TryFilesWasLast /\ last.out.kind = "response"
            /\ last.out.status = HTTP_NOT_FOUND) =>
        Reaches404

\* C21: when no try_files candidate resolves and `=404` is not among the
\* candidates reached, try_files returns nothing: the next directive of the
\* rule runs, and when no later directive answers the request ends with no
\* response, not with a 404.  try_files answers 404 only when the literal
\* `=404` entry is reached.
C21_TryFilesFallsThrough == TryFilesFallsThrough

\* C21, the part the code keeps: the same for the paths whose escapes are all
\* below 0x80
C21_HoldsForAsciiEscapes ==
    (Done /\ DecodeEscapes(last.req.path).ok) => TryFilesFallsThrough

\* no index.html under the root of a single-page application: try_files
\* found nothing and the request ended with no response
C21_WitnessNoResponse ==
    /\ scenario.kind = "default" /\ OptsOf(scenario).spa
    /\ TryFilesInvoked /\ NoCandidateResolves /\ ~Reaches404
    /\ last.out = Nothing

-----------------------------------------------------------------------------
(* C22 *)

\* the add_header entries of a list of groups, group after group
RECURSIVE AllAddHeader(_)
AllAddHeader(groups) ==
    IF groups = <<>> THEN <<>>
    ELSE toArray(Head(groups).add_header) \o AllAddHeader(Tail(groups))

\* the groups that give a key
GroupsWith(groups, name) ==
    {g \in 1..Len(groups) : \E k \in 1..Len(groups[g].dirs) : groups[g].dirs[k].name = name}

KeysOf(groups) ==
    UNION {{groups[g].dirs[k].name : k \in 1..Len(groups[g].dirs)} : g \in 1..Len(groups)}

LastGroupWith(groups, name) ==
    CHOOSE g \in GroupsWith(groups, name) : \A h \in GroupsWith(groups, name) : h <= g

\* the rule was built from the groups of the location (under --cors the
\* requests add entries after those of the groups)
BuiltFrom(rule, groups) ==
    /\ Len(AllAddHeader(groups)) <= Len(rule.add_header)
    /\ SubSeq(rule.add_header, 1, Len(AllAddHeader(groups))) = AllAddHeader(groups)
    /\ (~global_config.cors => rule.add_header = AllAddHeader(groups))
    /\ {rule.dirs[k].name : k \in 1..Len(rule.dirs)} = KeysOf(groups)
    /\ \A j, k \in 1..Len(rule.dirs) : rule.dirs[j].name = rule.dirs[k].name => j = k
    /\ \A k \in 1..Len(rule.dirs) :
        rule.dirs[k].arg =
            Lookup(groups[LastGroupWith(groups, rule.dirs[k].name)].dirs, rule.dirs[k].name)

\* the location blocks of the configuration the server was made from: those
\* of a server block, or the `location /` of the default server
RawLocationsOf(sc) ==
    IF ConfigOf(sc).server = <<>>
    THEN {<<Location(P_root, <<Group(Undefined, <<
              Dir("try_files", TryDefault
                  \o (IF OptsOf(sc).spa THEN SlashIndexHtml ELSE Eq404))>>)>>)>>}
    ELSE {ConfigOf(sc).server[i].locations : i \in 1..Len(ConfigOf(sc).server)}

\* C22: for a location configured with several directive groups the builder
\* applies the groups in declaration order: a scalar key present in more than
\* one group has the value of the last group that gives it, the add_header
\* entries of all groups are in the rule's add_header list in declaration
\* order and none is overwritten, and the raw groups of the configuration are
\* left as they were.  Stated of every server that was started.
C22_GroupsMergedInOrder ==
    server_cfg # NotStarted =>
        /\ server_cfg.locations \in RawLocationsOf(scenario)
        /\ \A i \in 1..Len(server_cfg.locations) :
            BuiltFrom(RuleOf(Table, server_cfg.locations[i].prefix),
                      server_cfg.locations[i].groups)

\* three groups: try_files and expires of the later group, the four
\* add_header entries in order, and a request answered by the later try_files
C22_Witness ==
    /\ scenario.kind = "groups"
    /\ Len(server_cfg.locations[1].groups) = 3
    /\ RuleOf(Table, P_root).add_header =
            << <<"Vary", Space, "Accept">>, <<"X-Frame-Options", Space, "DENY">>,
               <<"X-Frame-Options", Space, "SAMEORIGIN">>,
               <<"Access-Control-Allow-Headers", Space, HttpAccessControlRequestHeaders>> >>
    /\ RuleOf(Table, P_root).dirs =
            <<Dir("try_files", TryDefault \o Eq404), Dir("expires", <<"2d">>),
              Dir("proxy_http_version", <<"1.1">>)>>
    /\ Responded /\ last.req.path = P_root /\ last.out.status = HTTP_OK
    /\ last.out.headers[<<"x-frame-options">>] = << <<"SAMEORIGIN">> >>

-----------------------------------------------------------------------------
(* C23 *)

\* the header names of the model that end in `allow-headers`
AllowHeadersNames == {H_ACAllowHeaders}

\* the Access-Control-Request-Headers of the request, empty when absent
RequestedHeaders(req) ==
    IF HeadersHas(req.headers, H_ACRequestHeaders)
    THEN HeaderValue(req.headers, H_ACRequestHeaders) ELSE <<>>

\* a configured value with the nginx variable replaced by what the request
\* asked for
RECURSIVE Substituted(_, _)
Substituted(value, req) ==
    IF value = <<>> THEN <<>>
    ELSE (IF Head(value) = HttpAccessControlRequestHeaders
          THEN RequestedHeaders(req) ELSE <<Head(value)>>)
         \o Substituted(Tail(value), req)

\* the values the applied entries give to a name, substituted, the empty
\* ones left out
RECURSIVE SubstitutedValues(_, _, _)
SubstitutedValues(entries, name, req) ==
    IF entries = <<>> THEN <<>>
    ELSE LET nv == parseHeader(Head(entries))
             v == Trim(Substituted(nv.value, req))
         IN  (IF nv.name = name /\ v # <<>> THEN <<v>> ELSE <<>>)
             \o SubstitutedValues(Tail(entries), name, req)

\* C23: in the header cascade a header whose name ends in `allow-headers`
\* has `$http_access_control_request_headers` replaced by the
\* Access-Control-Request-Headers of the request, and is left out when the
\* value that results is empty: no response carries an
\* access-control-allow-headers header with an empty value.
C23_AllowHeadersSubstitutedOrSkipped ==
    Responded =>
        \A n \in AllowHeadersNames :
            /\ HeadersHas(last.out.headers, n) =>
                \A k \in 1..Len(last.out.headers[n]) :
                    /\ last.out.headers[n][k] # <<>>
                    /\ \A t \in 1..Len(last.out.headers[n][k]) :
                        last.out.headers[n][k][t] # HttpAccessControlRequestHeaders
            /\ (last.handlers # <<>> /\ n \in NamesOf(AppliedEntries)) =>
                LET vs == SubstitutedValues(AppliedEntries, n, last.req)
                IN  IF vs = <<>> THEN ~HeadersHas(last.out.headers, n)
                    ELSE /\ HeadersHas(last.out.headers, n)
                         /\ last.out.headers[n] = <<vs[Len(vs)]>>

\* C23, what the code does instead: the configured value is the value of the
\* header, as written and even when empty
C23_ValueAsConfigured ==
    (Responded /\ last.handlers # <<>>) =>
        \A n \in AllowHeadersNames :
            n \in NamesOf(AppliedEntries) =>
                /\ HeadersHas(last.out.headers, n)
                /\ last.out.headers[n] =
                        <<ValuesFor(AppliedEntries, n)[Len(ValuesFor(AppliedEntries, n))]>>

-----------------------------------------------------------------------------
(* C24 *)

\* this step is a reload of one of the given kinds
ReloadStep(kinds) ==
    /\ Len(global_config'.loaded) = Len(global_config.loaded) + 1
    /\ global_config'.loaded[Len(global_config'.loaded)] \in kinds

ConfigurationKept ==
    /\ global_config'.add_header = global_config.add_header
    /\ global_config'.cors = global_config.cors
    /\ server_cfg' = server_cfg

\* C24: a reload that fails leaves the configuration loaded before fully in
\* effect: after a reload whose parse raises an error the global
\* configuration equals the one before the reload, and a working
\* configuration is never replaced by an empty or partial one.
C24_FailedReloadKeepsConfiguration ==
    [][ReloadStep(FailingKinds) => ConfigurationKept]_vars

\* C24, the part the code keeps: the configuration stays when the second
\* read of the catch block raises as well
C24_KeptWhenBothReadsFail ==
    [][ReloadStep(UnreadableKinds) => ConfigurationKept]_vars

\* after a reload whose include could not be read, a response without the
\* global headers the configuration had
C24_PartialInEffect ==
    /\ Done /\ last.started = <<"broken">>
    /\ Responded /\ last.handlers = <<"try_files">>
    /\ last.out.headers[<<"vary">>] = << <<"Origin">>, <<"Accept">> >>

-----------------------------------------------------------------------------
(* C25 *)

\* a listen directive that reads as `[host:]port [flags]`
ParsableListen(listen_cfg) == TrailingDigits(Head(Split(listen_cfg, " "))) # <<>>

ListensOf(i) == toArray(Prop(Blocks[i], "listen"))

AllListensParsable ==
    \A i \in 1..Len(Blocks) : \A k \in 1..Len(ListensOf(i)) : ParsableListen(ListensOf(i)[k])

\* the ports the listen directives of block i give once those that cannot
\* be parsed are left out
ParsablePorts(i) ==
    {ListenPortOf(ListensOf(i)[k]) :
        k \in {j \in 1..Len(ListensOf(i)) : ParsableListen(ListensOf(i)[j])}}

ListenTokensSkipped ==
    /\ server_cfg # NotStarted
    /\ Servers # <<>>
    /\ \A i \in 1..Len(Blocks) :
        /\ GroupsOf(i) # {}
        /\ (OptsOf(scenario).port = Undefined /\ ParsablePorts(i) # {}) =>
            \A g \in GroupsOf(i) :
                PortKey(Servers[g][1].port) \in {NumToStr(n) : n \in ParsablePorts(i)}

\* C25: a listen token that cannot be parsed as `[host:]port` is skipped:
\* normalization raises no error, the other listen tokens and the other
\* server blocks are processed, and a server is started in every case (the
\* default server when the configuration yields none).
C25_UnparsableListenSkipped == ListenTokensSkipped

\* C25, the part the code keeps: the same when every listen token ends in a
\* port
C25_HoldsWhenEveryListenParses == AllListensParsable => ListenTokensSkipped

\* C25, what the code does instead: with a listen token that does not end in
\* a port no server is started
C25_NothingStarted ==
    ~AllListensParsable => (server_cfg = NotStarted /\ ~Done /\ pending = {})

-----------------------------------------------------------------------------
(* C26 *)

\* how many times a handler was invoked for the request
Invocations(name) == Cardinality({j \in 1..Len(last.handlers) : last.handlers[j] = name})

\* proxy_pass was invoked with an argument that is no URL
MalformedProxyPass ==
    /\ RanDirectives
    /\ Invocations("proxy_pass") >= 1
    /\ ~IsUrl(ProxyTarget)

\* C26: when proxy_pass cannot construct the upstream URL (a malformed
\* argument) the client receives a 500 response that carries the message of
\* the error; the upgrade hook and the upstream fetch are not invoked for the
\* request, and no retry is made.
C26_MalformedTargetGets500 ==
    MalformedProxyPass =>
        /\ last.out.kind = "response"
        /\ last.out.status = HTTP_SERVER_ERROR
        /\ last.out.body.kind = "text"
        /\ last.out.body.message = UrlErrorMessage(ProxyTarget)
        /\ ~last.upgraded
        /\ last.upstream = <<>>
        /\ Invocations("proxy_pass") = 1
        /\ last.handlers[Len(last.handlers)] = "proxy_pass"
        /\ last.log = <<"error">>

\* a client asked for an upgrade through a rule whose proxy_pass argument
\* has no scheme, and got the 500
C26_Witness ==
    /\ MalformedProxyPass
    /\ last.req.upgrade
    /\ ProxyTarget = <<"upstream">>
    /\ Responded /\ last.out.status = HTTP_SERVER_ERROR
    /\ ~last.upgraded

\* the same for a request that asked for no upgrade
C26_WitnessPlain ==
    /\ MalformedProxyPass
    /\ ~last.req.upgrade
    /\ Responded /\ last.out.status = HTTP_SERVER_ERROR
    /\ last.upstream = <<>>

-----------------------------------------------------------------------------
(* C27, C28 *)

IsPrefixOf(s, t) == Len(s) <= Len(t) /\ SubSeq(t, 1, Len(s)) = s

Count(s, m) == Cardinality({i \in 1..Len(s) : s[i] = m})

\* C27: on the WebSocket bridge the messages of the client are forwarded to
\* the upstream in the order in which the client sent them, whenever the
\* connection to the upstream becomes open relative to the arrival of the
\* messages.
C27_ClientMessagesInOrder == IsPrefixOf(sockets.to_upstream, sockets.from_client)

\* C27, the part the code keeps: every message of the client is held by one
\* timer or was forwarded once, and nothing else is forwarded
C27_EachMessageHeldOrForwardedOnce ==
    \A m \in WsMessages :
        Count(sockets.from_client, m) = Count(sockets.timers, m) + Count(sockets.to_upstream, m)

\* the second message of the client reached the upstream before the first
C27_Overtaken ==
    /\ sockets.from_client = <<"a", "b">>
    /\ sockets.to_upstream = <<"b", "a">>

\* this step passes a message of the client on to the upstream
ForwardsToUpstream == Len(sockets'.to_upstream) > Len(sockets.to_upstream)

\* a message goes to the upstream only from a timer that finds the upstream
\* socket open, and each message goes once
SentOnceWhileOpen ==
    [][ForwardsToUpstream =>
            /\ sockets.upstream = "open"
            /\ sockets.timers # <<>>
            /\ sockets'.to_upstream = Append(sockets.to_upstream, Head(sockets.timers))
            /\ sockets'.timers = Tail(sockets.timers)]_vars

\* C28: for every message of the client the polling that onWscOpen starts
\* ends: the message is sent to the upstream once, and only while the
\* upstream socket is open, and when the upstream never opens (refused,
\* failed, closed) or the client disconnects the polling stops rather than
\* arming its timer again for ever.
C28_PollingTerminates ==
    /\ SentOnceWhileOpen
    /\ (sockets.timers # <<>>) ~> (sockets.timers = <<>>)

\* C28, the part the code keeps: a message is sent once and only while the
\* upstream socket is open
C28_SentOnceWhileOpen == SentOnceWhileOpen

\* C28, what the code does instead: once the upstream socket is closed, a
\* timer that holds a message is never given up
C28_PollsForEverOnceClosed ==
    [][(sockets.upstream = "closed" /\ sockets.timers # <<>>) =>
            (sockets'.timers # <<>> /\ Len(sockets'.to_upstream) = Len(sockets.to_upstream))]_vars

-----------------------------------------------------------------------------
(* C29 *)

\* the rule the builder made for a prefix, with the entries that runActions
\* adds for this request and no other
FreshRule(prefix, req) ==
    LET built == RuleOf(BuiltServer.location_actions, prefix)
    IN  [built EXCEPT !.add_header = @ \o CorsAdditions(@, req, global_config)]

\* the answer of a server that has served no request before this one
FreshAnswer(req, up) ==
    LET i == MatchIndex(BuiltServer.location_actions, req.path)
        prefix == BuiltServer.location_actions[i].prefix
    IN  IF i = 0 THEN Nothing
        ELSE IF IsPreflight(req)
        THEN Preflight(FreshRule(prefix, req), BuiltServer, global_config)
        ELSE runDirectivesWithHeaders(FreshRule(prefix, req), req, prefix, BuiltServer,
                                      global_config, files, up).out

\* the request without the headers that runActions reads for CORS
WithoutCorsHeaders(req) ==
    [req EXCEPT !.headers = [k \in DOMAIN @ \ {H_Origin, H_ACRequestHeaders} |-> @[k]]]

\* the configuration itself sets the header, whatever the request carries
ConfigurationSets(name) ==
    LET out == FreshAnswer(WithoutCorsHeaders(last.req), last.up)
    IN  out.kind = "response" /\ HeadersHas(out.headers, name)

DependsOnRequestOnly ==
    (Done /\ global_config.cors) =>
        /\ last.out = FreshAnswer(last.req, last.up)
        /\ Responded =>
            /\ (~HeadersHas(last.req.headers, H_Origin)
                    /\ ~ConfigurationSets(H_ACAllowOrigin))
                => ~HeadersHas(last.out.headers, H_ACAllowOrigin)
            /\ (HeadersHas(last.out.headers, H_ACAllowHeaders)
                    /\ ~ConfigurationSets(H_ACAllowHeaders))
                => last.out.headers[H_ACAllowHeaders] = <<RequestedHeaders(last.req)>>

\* C29: with CORS enabled the response to a request depends on that request
\* and on the configuration only, not on earlier requests: a request without
\* an Origin header gets no access-control-allow-origin even when earlier
\* requests to the same location had one, and access-control-allow-headers
\* reflects the Access-Control-Request-Headers of the current request.
C29_ResponseDependsOnRequestOnly == DependsOnRequestOnly

\* C29, the part the code keeps: the same for a request that finds and
\* leaves the add_header list of its rule as the builder made it, its own
\* entries apart
C29_HoldsOnFreshRule ==
    (Done /\ last.prefix # NoPrefix
        /\ last.scope = FreshRule(last.prefix, last.req).add_header)
    => DependsOnRequestOnly

\* a request without Origin answered with the origin of an earlier request
C29_LeakedOrigin ==
    /\ global_config.cors /\ Responded
    /\ ~HeadersHas(last.req.headers, H_Origin)
    /\ ~ConfigurationSets(H_ACAllowOrigin)
    /\ HeadersHas(last.out.headers, H_ACAllowOrigin)
    /\ last.out.headers[H_ACAllowOrigin] = <<Origin1>>

-----------------------------------------------------------------------------
(* C30 *)

\* server.upgrade succeeded in the proxy_pass of the request
UpgradeSucceeded == Done /\ last.upgraded

\* proxy_pass was the last handler to run for the request
ProxyPassWasLast ==
    last.handlers # <<>> /\ last.handlers[Len(last.handlers)] = "proxy_pass"

\* the handlers of the rule that follow its proxy_pass
HandlersAfterProxyPass ==
    LET dirs == RuleOf(server_cfg.location_actions, last.prefix).dirs
    IN  {i \in 1..Len(dirs) :
            /\ dirs[i].name \in HandlerNames
            /\ \E j \in 1..(i - 1) : dirs[j].name = "proxy_pass"}

UpgradeFinishesRequest ==
    UpgradeSucceeded =>
        /\ last.upstream = <<>>
        /\ ProxyPassWasLast
        /\ last.out = Nothing

\* C30: when proxy_pass hands the request to the upgrade mechanism with
\* success, the request is not forwarded to the upstream by HTTP and it is
\* finished: no later directive of the rule is executed and no HTTP response
\* is produced for the upgraded request.
C30_UpgradeFinishesRequest == UpgradeFinishesRequest

\* C30, the part the code keeps: an upgraded request is never forwarded to
\* the upstream by HTTP, and it is finished with no response when no handler
\* follows proxy_pass in the rule
C30_HoldsWhenProxyPassIsLastHandler ==
    UpgradeSucceeded =>
        /\ last.upstream = <<>>
        /\ HandlersAfterProxyPass = {} => (ProxyPassWasLast /\ last.out = Nothing)

\* an upgraded request for which the try_files that follows proxy_pass ran
\* and answered with a response
C30_ResponseAfterUpgrade ==
    /\ UpgradeSucceeded
    /\ last.handlers[Len(last.handlers)] = "try_files"
    /\ last.out.kind = "response"
    /\ last.out.status = HTTP_OK

====
